---- MODULE Spec2Model ----
(***************************************************************************)
(* Genesis artifact generator of k8s-node-tester                           *)
(* (go-scripts/genesis-generator/cmd/genesis/main.go).                     *)
(*                                                                         *)
(* One run of main() over one profile: validation, output reset, per-chain *)
(* identity synthesis, multi-committee expansion, chain-file emission and  *)
(* the rootChainNode / peerNode assignment that produces ids.json.         *)
(*                                                                         *)
(* Key material is abstract: every call of mustCreateKey returns a fresh   *)
(* key, written as a positive integer; address and publicKey are that      *)
(* integer.  Filler accounts ("%020x" of the index) are negative integers, *)
(* so they never equal a key address.  Amounts are left out.  Counts of a  *)
(* profile are natural numbers.                                            *)
(*                                                                         *)
(* Spec takes Phase 1 one chain at a step, with the workers in the order   *)
(* they are started.  SpecWorkers runs the workers of a chain and the      *)
(* collector of accountChan in every order.  Both hold the failures of the *)
(* environment: an unreadable accounts file, a failed key generation, a    *)
(* failed file write.  SpecSemaphore takes the workers step by step, with  *)
(* the semaphore, the mutex and the nickNames channel; SpecSemaphoreFair    *)
(* adds the fairness of the Go scheduler.                                   *)
(*                                                                         *)
(* SpecApplier is the k8s-applier (go-scripts/k8s-applier) over an artifact *)
(* tree and a namespace, run once or twice.  SpecPipeline runs generator,  *)
(* applier and init container (go-scripts/init-node) in sequence.           *)
(* SpecBroadcast is the populator's broadcaster between the block notifier *)
(* and the two transaction handlers.                                       *)
(***************************************************************************)
EXTENDS Integers, Sequences, FiniteSets, TLC

VARIABLES
    cfg,                 \* the selected profile (AppConfig), chains in sorted-name order
    pc,                  \* position of main()
    err,                 \* error reported by a failed run: << >> when none, else
                         \* the message followed by the numbers it prints
    outputTree,          \* files below <output>/<profile>/
    chainIdx,            \* loop cursor over chainNames (Phase 1 and Phase 2)
    nextKey,             \* number of keys created so far
    chainIdentitiesMap,  \* chain index -> identities of the chain, sorted by id
    chainAccountsMap,    \* chain index -> account addresses collected for the chain
    allIdentities,       \* all identities, appended per chain, sorted before expansion
    chainToRootChain,    \* chain id -> root chain id
    expandedEntries,     \* the expanded entries
    genesisFiles,        \* chain index -> genesis.json content
    keystoreFiles,       \* chain index -> keystore.json nickname map
    rootChainNodeAssignments, \* node id -> number of rootChainNode references
    peerNodeAssignments,      \* node id -> number of peerNode references
    assignIdx,           \* loop cursor of the pointer assignment pass
    idsKeys,             \* ids.json "keys": node id -> identity
    buffer,              \* general.buffer, the capacity of accountChan
    wgPending,           \* workers of the chain under generation that have not finished
    appendedIdentities,  \* chainIdentities as the workers have appended it so far
    accountChan,         \* accounts sent and not yet received by the collector
    received,            \* the account the collector has received and not yet appended
    collectedAccounts,   \* accounts as the collector has appended it so far
    \* k8s-applier
    tree,                \* the artifact tree <path>/<config> the applier reads
    apc,                 \* position of the applier's main()
    runs,                \* number of applier runs started
    dataByType,          \* file type -> (entry key -> contents), from buildDataMaps
    pendingConfigMaps,   \* names of the ConfigMaps still to apply in this run
    chainsTodo,          \* chain ids createServices has still to go through
    configMaps,          \* the namespace: ConfigMap name -> data
    services,            \* the namespace: service name -> service
    apiLog,              \* the mutating API calls of this run and their outcomes
    clusterAtStart,      \* configMaps and services as this run found them
    \* genesis generator, the goroutines of Phase 1 step by step
    concurrency,         \* general.concurrency, the capacity of semaphoreChan
    workerState,         \* worker -> its position, its key and the slice it has read
    mutexHolder,         \* the worker that holds chainSync, or 0
    nickNamesLen,        \* number of nicknames in the nickNames channel
    \* generator, applier and init container in sequence
    chainNames,          \* chain index -> the chain's name in the profile
    podFiles,            \* node id -> what its init container found, by file type
    \* populator: the broadcaster between the block notifier and its subscribers
    broadcasterKind,     \* which NewBroadcaster is built in
    sendCount,           \* profile.Send.Count()
    emitted,             \* number of heights the notifier has sent
    srcClosed,           \* the notifier has closed its channel
    bpc,                 \* position of the broadcaster's goroutine
    bval,                \* the height the broadcaster is relaying
    bidx,                \* the subscriber the broadcaster is at
    subState,            \* subscriber -> "ready", "busy", "gone" or "ended"
    delivered,           \* subscriber -> the heights it has received
    subClosed            \* subscriber -> its channel is closed

vars == <<cfg, pc, err, outputTree, chainIdx, nextKey, chainIdentitiesMap,
          chainAccountsMap, allIdentities, chainToRootChain, expandedEntries,
          genesisFiles, keystoreFiles, rootChainNodeAssignments,
          peerNodeAssignments, assignIdx, idsKeys,
          buffer, wgPending, appendedIdentities, accountChan, received,
          collectedAccounts,
          tree, apc, runs, dataByType, pendingConfigMaps, chainsTodo, configMaps,
          services, apiLog, clusterAtStart,
          concurrency, workerState, mutexHolder, nickNamesLen,
          chainNames, podFiles,
          broadcasterKind, sendCount, emitted, srcClosed, bpc, bval, bidx,
          subState, delivered, subClosed>>

\* the state of main() of the genesis generator
generatorVars ==
    <<cfg, pc, err, outputTree, chainIdx, nextKey, chainIdentitiesMap,
      chainAccountsMap, allIdentities, chainToRootChain, expandedEntries,
      genesisFiles, keystoreFiles, rootChainNodeAssignments,
      peerNodeAssignments, assignIdx, idsKeys>>

\* the state of the k8s-applier and of the namespace it applies to
applierVars ==
    <<tree, apc, runs, dataByType, pendingConfigMaps, chainsTodo, configMaps,
      services, apiLog, clusterAtStart>>

\* the semaphore, the workers' positions, the mutex and the nickNames channel
semaphoreVars == <<concurrency, workerState, mutexHolder, nickNamesLen>>

\* the chain names and the init containers' findings
pipelineVars == <<chainNames, podFiles>>

\* the state of the populator's broadcaster, its source and its subscribers
broadcastVars ==
    <<broadcasterKind, sendCount, emitted, srcClosed, bpc, bval, bidx,
      subState, delivered, subClosed>>

\* the state that the coarse models of the genesis generator leave alone
restVars == <<applierVars, semaphoreVars, pipelineVars, broadcastVars>>

\* the chains carry no name and no init container has run
PipelineIdle ==
    /\ chainNames = << >>
    /\ podFiles = << >>

\* the populator has not started
BroadcastIdle ==
    /\ broadcasterKind = "none"
    /\ sendCount = 0
    /\ emitted = 0
    /\ srcClosed = FALSE
    /\ bpc = "idle"
    /\ bval = 0
    /\ bidx = 0
    /\ subState = << >>
    /\ delivered = << >>
    /\ subClosed = << >>

\* no worker is tracked
SemaphoreIdle ==
    /\ concurrency = 0
    /\ workerState = << >>
    /\ mutexHolder = 0
    /\ nickNamesLen = 0

\* the applier has not started
ApplierIdle ==
    /\ tree = << >>
    /\ apc = "idle"
    /\ runs = 0
    /\ dataByType = << >>
    /\ pendingConfigMaps = {}
    /\ chainsTodo = << >>
    /\ configMaps = << >>
    /\ services = << >>
    /\ apiLog = << >>
    /\ clusterAtStart = << >>

\* the other programs have not started
RestIdle ==
    /\ SemaphoreIdle
    /\ PipelineIdle
    /\ BroadcastIdle
    /\ ApplierIdle

\* the state of generateChainIdentities' goroutines
phase1vars ==
    <<buffer, wgPending, appendedIdentities, accountChan, received, collectedAccounts>>

-----------------------------------------------------------------------------
(* Bounds of the profile space *)

MaxValidators == 2
MaxFullNodes == 1
MaxDelegators == 1
MaxCommitteeCount == 1
MaxAccounts == 1
MaxCountError == 1
MaxProfileSize == 10

-----------------------------------------------------------------------------
(* Sequence helpers *)

Range(s) == { s[i] : i \in DOMAIN s }

RECURSIVE SumSeq(_)
SumSeq(s) == IF s = << >> THEN 0 ELSE Head(s) + SumSeq(Tail(s))

RECURSIVE Flatten(_)
Flatten(ss) == IF ss = << >> THEN << >> ELSE Head(ss) \o Flatten(Tail(ss))

\* the identities, and the ids, of a list of expanded entries
identitiesOf(entries) == [ i \in DOMAIN entries |-> entries[i].identity ]
idsOf(entries) == [ i \in DOMAIN entries |-> entries[i].identity.id ]

-----------------------------------------------------------------------------
(* Profiles *)

CommitteeAssignment(id, rep, repD, vc, dc) ==
    [ id |-> id,
      repeatedIdentityValidatorCount |-> rep,
      repeatedIdentityDelegatorCount |-> repD,
      validatorCount |-> vc,
      delegatorCount |-> dc ]

ChainConfig(id, root, v, f, a, d, cas) ==
    [ id |-> id, rootChain |-> root, validators |-> v, fullNodes |-> f,
      accounts |-> a, delegators |-> d, committees |-> cas ]

\* A shape fixes the chains (in sorted-name order), their id / rootChain links
\* and the targets and kinds of their committee assignments.
Sh(id, root, cas) == [ id |-> id, rootChain |-> root, cas |-> cas ]
K(id, kind) == [ id |-> id, kind |-> kind ]

Shapes ==
    { \* one root chain
      << Sh(1, 1, << >>) >>,
      << Sh(1, 1, << K(1, "rep") >>) >>,
      << Sh(1, 1, << K(1, "only") >>) >>,
      << Sh(1, 1, << K(2, "rep") >>) >>,
      \* root and nested chain
      << Sh(1, 1, << >>), Sh(2, 1, << >>) >>,
      << Sh(1, 1, << K(2, "rep") >>), Sh(2, 1, << >>) >>,
      << Sh(1, 1, << K(2, "only") >>), Sh(2, 1, << >>) >>,
      << Sh(1, 1, << K(2, "both") >>), Sh(2, 1, << >>) >>,
      << Sh(1, 1, << K(2, "rep"), K(2, "rep") >>), Sh(2, 1, << >>) >>,
      << Sh(1, 1, << K(2, "only"), K(2, "rep") >>), Sh(2, 1, << >>) >>,
      << Sh(1, 1, << K(2, "rep") >>), Sh(2, 1, << K(1, "rep") >>) >>,
      << Sh(1, 1, << K(2, "only") >>), Sh(2, 1, << K(1, "only") >>) >>,
      << Sh(1, 1, << K(2, "rep") >>), Sh(2, 1, << K(2, "only") >>) >>,
      \* nested chain sorted before its root
      << Sh(2, 1, << >>), Sh(1, 1, << K(2, "both") >>) >>,
      \* two root chains, the same id twice, a missing root
      << Sh(1, 1, << >>), Sh(2, 2, << >>) >>,
      << Sh(1, 1, << K(2, "rep") >>), Sh(2, 2, << K(1, "only") >>) >>,
      << Sh(1, 1, << >>), Sh(1, 1, << >>) >>,
      << Sh(1, 1, << >>), Sh(2, 3, << >>) >>,
      \* chain id 0
      << Sh(0, 0, << K(1, "only") >>), Sh(1, 0, << >>) >>,
      \* three chains
      << Sh(1, 1, << K(2, "rep"), K(3, "rep") >>), Sh(2, 1, << >>), Sh(3, 1, << >>) >>,
      << Sh(1, 1, << K(2, "only"), K(3, "both") >>), Sh(2, 1, << >>), Sh(3, 1, << >>) >>,
      << Sh(1, 1, << >>), Sh(2, 2, << K(3, "rep") >>), Sh(3, 2, << >>) >>,
      << Sh(1, 1, << >>), Sh(2, 2, << K(3, "only") >>), Sh(3, 2, << >>) >>,
      << Sh(1, 1, << K(2, "rep") >>), Sh(2, 1, << K(3, "rep") >>), Sh(3, 2, << >>) >>,
      << Sh(1, 1, << K(2, "only") >>), Sh(2, 1, << K(3, "only") >>), Sh(3, 2, << >>) >> }

\* the committee assignment of kind k with n validators and m delegators
ShapeAssignment(k, n, m) ==
    CommitteeAssignment(k.id,
        IF k.kind \in {"rep", "both"} THEN n ELSE 0,
        IF k.kind \in {"rep", "both"} THEN m ELSE 0,
        IF k.kind \in {"only", "both"} THEN n ELSE 0,
        IF k.kind \in {"only", "both"} THEN m ELSE 0)

ShapeChains(shape, v, f, a, d, n, m) ==
    [ i \in DOMAIN shape |->
        ChainConfig(shape[i].id, shape[i].rootChain, v[i], f, a, d,
                    [ j \in DOMAIN shape[i].cas |-> ShapeAssignment(shape[i].cas[j], n, m) ]) ]

\* validateConfig's tally of one chain
ChainNodes(c) ==
    c.validators + c.fullNodes
    + SumSeq([ j \in DOMAIN c.committees |-> c.committees[j].repeatedIdentityValidatorCount ])
    + SumSeq([ j \in DOMAIN c.committees |-> c.committees[j].validatorCount ])

TotalNodes(chains) == SumSeq([ i \in DOMAIN chains |-> ChainNodes(chains[i]) ])

AppConfig(chains, e) == [ chains |-> chains, nodes |-> TotalNodes(chains) + e ]

\* everything a profile asks for: nodes, delegators and filler accounts
ProfileSize(chains) ==
    TotalNodes(chains)
    + SumSeq([ i \in DOMAIN chains |->
                 chains[i].accounts + chains[i].delegators
                 + SumSeq([ j \in DOMAIN chains[i].committees |->
                              chains[i].committees[j].repeatedIdentityDelegatorCount
                              + chains[i].committees[j].delegatorCount ]) ])

ChainIndices(c) == DOMAIN c.chains
IsRoot(ch) == ch.id = ch.rootChain

-----------------------------------------------------------------------------
(* Validation *)

\* validateConfig that accepts a tally below nodes.count
validateConfigAtMost(c) == TotalNodes(c.chains) <= c.nodes

\* validateConfig: nil iff the tally equals nodes.count
validateConfig(c) == TotalNodes(c.chains) = c.nodes

\* validateCommitteeAssignments picks, for a nested chain, the first chain it
\* meets (in map iteration order) whose id is the nested chain's rootChain.
\* A choice maps every nested chain to such a chain, or to 0 when none exists.
RootCfgChoices(c) ==
    LET nested == { i \in ChainIndices(c) : ~IsRoot(c.chains[i]) }
        cands(i) == { r \in ChainIndices(c) : c.chains[r].id = c.chains[i].rootChain }
    IN  { g \in [ nested -> ChainIndices(c) \cup {0} ] :
            \A i \in nested : IF cands(i) = {} THEN g[i] = 0 ELSE g[i] \in cands(i) }

\* the first committee assignment of root chain r that targets chain id, or 0
FirstAssignmentFor(r, id) ==
    LET hits == { j \in DOMAIN r.committees : r.committees[j].id = id }
    IN  IF hits = {} THEN 0 ELSE CHOOSE j \in hits : \A k \in hits : j <= k

validateCommitteeAssignments(c, g) ==
    LET validChainIDs == { c.chains[i].id : i \in ChainIndices(c) }
        rootChainValidatorCount ==
            SumSeq([ i \in ChainIndices(c) |->
                       IF IsRoot(c.chains[i]) THEN c.chains[i].validators ELSE 0 ])
        assignmentOK(ch, ca) ==
            /\ ca.id \in validChainIDs
            /\ ca.repeatedIdentityValidatorCount <= ch.validators
            /\ ca.repeatedIdentityDelegatorCount <= ch.delegators
        nestedOK(i) ==
            /\ g[i] # 0
            /\ LET r == c.chains[g[i]]
                   j == FirstAssignmentFor(r, c.chains[i].id)
               IN  /\ j # 0
                   /\ r.committees[j].repeatedIdentityValidatorCount
                        + r.committees[j].validatorCount > 0
    IN  /\ rootChainValidatorCount # 0
        /\ \A i \in ChainIndices(c) : \A j \in DOMAIN c.chains[i].committees :
               assignmentOK(c.chains[i], c.chains[i].committees[j])
        /\ \A i \in DOMAIN g : nestedOK(i)

-----------------------------------------------------------------------------

StaleTree == { <<0, "ids.json">>, <<1, "genesis.json">> }

Init ==
    /\ \E shape \in Shapes :
         \E v \in [ DOMAIN shape -> 0..MaxValidators ], f \in 0..MaxFullNodes,
            a \in 0..MaxAccounts, d \in 0..MaxDelegators,
            n \in 1..MaxCommitteeCount, m \in 0..MaxCommitteeCount,
            e \in 0..MaxCountError :
              /\ ProfileSize(ShapeChains(shape, v, f, a, d, n, m)) <= MaxProfileSize
              /\ cfg = AppConfig(ShapeChains(shape, v, f, a, d, n, m), e)
    /\ pc = "validate"
    /\ err = << >>
    /\ outputTree = StaleTree
    /\ chainIdx = 1
    /\ nextKey = 0
    /\ chainIdentitiesMap = << >>
    /\ chainAccountsMap = << >>
    /\ allIdentities = << >>
    /\ chainToRootChain = << >>
    /\ expandedEntries = << >>
    /\ genesisFiles = << >>
    /\ keystoreFiles = << >>
    /\ rootChainNodeAssignments = << >>
    /\ peerNodeAssignments = << >>
    /\ assignIdx = 1
    /\ idsKeys = << >>
    /\ buffer = 0
    /\ wgPending = {}
    /\ appendedIdentities = << >>
    /\ accountChan = << >>
    /\ received = << >>
    /\ collectedAccounts = << >>
    /\ RestIdle

\* main, up to the output reset: both validations, os.Exit(1) on an error
Validate ==
    /\ pc = "validate"
    /\ \E g \in RootCfgChoices(cfg) :
         IF ~validateConfig(cfg)
         THEN /\ pc' = "exit1"
              /\ err' = << "node count mismatch", TotalNodes(cfg.chains), cfg.nodes >>
         ELSE IF ~validateCommitteeAssignments(cfg, g)
         THEN /\ pc' = "exit1" /\ err' = << "committee assignment error" >>
         ELSE /\ pc' = "reset" /\ err' = err
    /\ UNCHANGED <<phase1vars, restVars>>
    /\ UNCHANGED <<cfg, outputTree, chainIdx, nextKey, chainIdentitiesMap,
                   chainAccountsMap, allIdentities, chainToRootChain,
                   expandedEntries, genesisFiles, keystoreFiles,
                   rootChainNodeAssignments, peerNodeAssignments, assignIdx, idsKeys>>

\* mustSetDirectory + mustDeleteInDirectory
ResetOutput ==
    /\ pc = "reset"
    /\ outputTree' = {}
    /\ pc' = "generate"
    /\ UNCHANGED <<phase1vars, restVars>>
    /\ UNCHANGED <<cfg, err, chainIdx, nextKey, chainIdentitiesMap,
                   chainAccountsMap, allIdentities, chainToRootChain,
                   expandedEntries, genesisFiles, keystoreFiles,
                   rootChainNodeAssignments, peerNodeAssignments, assignIdx, idsKeys>>

-----------------------------------------------------------------------------
(* Phase 1: identities of one chain *)

Nil == 0

NodeIdentity(id, chainID, rootChainID, key, nodeType, committees, expanding, isDelegate, genesisChainID) ==
    [ id |-> id, chainId |-> chainID, rootChainId |-> rootChainID,
      rootChainNode |-> Nil, peerNode |-> Nil,
      address |-> key, publicKey |-> key, nodeType |-> nodeType,
      committees |-> committees, expandingCommittees |-> expanding,
      isDelegate |-> isDelegate, netAddress |-> id,
      genesisChainId |-> genesisChainID ]

\* address of the i-th filler account, fmt.Sprintf("%020x", i)
FillerAddress(i) == 0 - (i + 1)

\* chainStartIndices that also advances the cursor by the chain's delegators
chainStartIndicesCountingDelegators(c, i) ==
    1 + SumSeq([ j \in 1..(i - 1) |->
                   c.chains[j].validators
                   + SumSeq([ k \in DOMAIN c.chains[j].committees |->
                                c.chains[j].committees[k].validatorCount ])
                   + c.chains[j].fullNodes + c.chains[j].delegators ])

\* main: first positive id of chain i
chainStartIndices(c, i) ==
    1 + SumSeq([ j \in 1..(i - 1) |->
                   c.chains[j].validators
                   + SumSeq([ k \in DOMAIN c.chains[j].committees |->
                                c.chains[j].committees[k].validatorCount ])
                   + c.chains[j].fullNodes ])

\* main: first (negative) delegator id of chain i
chainDelegatorStartIndices(c, i) ==
    (0 - 1) - SumSeq([ j \in 1..(i - 1) |->
                   c.chains[j].delegators
                   + SumSeq([ k \in DOMAIN c.chains[j].committees |->
                                c.chains[j].committees[k].delegatorCount ]) ])

\* the additional committees of regular validator (delegator) i of chain ch,
\* in the order of the chain's committee assignments
committeeAssignments(ch, i, isDelegate) ==
    LET count(ca) == IF isDelegate THEN ca.repeatedIdentityDelegatorCount
                                   ELSE ca.repeatedIdentityValidatorCount
        population == IF isDelegate THEN ch.delegators ELSE ch.validators
        hit(ca) == i < count(ca) /\ i < population
        assigned == SelectSeq(ch.committees, hit)
    IN  [ j \in DOMAIN assigned |-> assigned[j].id ]

\* addValidators: the count regular validators (delegators) of a chain
addValidators(ch, count, isDelegate, startIdx, key0) ==
    [ n \in 1..count |->
        LET i == n - 1
            additional == committeeAssignments(ch, i, isDelegate)
        IN  NodeIdentity(IF isDelegate THEN startIdx - i ELSE startIdx + i,
                         ch.id, ch.rootChain, key0 + n,
                         IF isDelegate THEN "delegator" ELSE "validator",
                         <<ch.id>> \o additional, Range(additional),
                         isDelegate, ch.id) ]

\* the target committee of every committee-only validator (delegator) of a
\* chain, in creation order
committeeOnlyTargets(ch, isDelegate) ==
    Flatten([ j \in DOMAIN ch.committees |->
                [ n \in 1..(IF isDelegate THEN ch.committees[j].delegatorCount
                                          ELSE ch.committees[j].validatorCount)
                    |-> ch.committees[j].id ] ])

\* addCommitteeOnly that places the record in the target chain's genesis
addCommitteeOnlyGenesisInTarget(ch, isDelegate, startIdx, key0) ==
    LET targets == committeeOnlyTargets(ch, isDelegate)
    IN  [ n \in DOMAIN targets |->
            NodeIdentity(IF isDelegate THEN startIdx - (n - 1) ELSE startIdx + (n - 1),
                         targets[n], ch.rootChain, key0 + n,
                         IF isDelegate THEN "delegator" ELSE "validator",
                         <<targets[n]>>, {}, isDelegate, targets[n]) ]

\* addCommitteeOnlyValidator / addCommitteeOnlyDelegator, for every target
addCommitteeOnly(ch, isDelegate, startIdx, key0) ==
    LET targets == committeeOnlyTargets(ch, isDelegate)
    IN  [ n \in DOMAIN targets |->
            NodeIdentity(IF isDelegate THEN startIdx - (n - 1) ELSE startIdx + (n - 1),
                         targets[n], ch.rootChain, key0 + n,
                         IF isDelegate THEN "delegator" ELSE "validator",
                         <<targets[n]>>, {}, isDelegate, ch.id) ]

\* addFullNodes
addFullNodes(ch, startIdx, key0) ==
    [ n \in 1..ch.fullNodes |->
        NodeIdentity(startIdx + (n - 1), ch.id, ch.rootChain, key0 + n,
                     "fullnode", << >>, {}, FALSE, ch.id) ]

\* addAccounts: the filler accounts
addAccounts(ch) == [ n \in 1..ch.accounts |-> FillerAddress(n - 1) ]

\* sort.Slice by ID
RECURSIVE SortByID(_)
SortByID(s) ==
    IF s = << >> THEN << >>
    ELSE LET m == CHOOSE i \in DOMAIN s : \A j \in DOMAIN s :
                     s[i].id < s[j].id \/ (s[i].id = s[j].id /\ i <= j)
         IN  <<s[m]>> \o SortByID([ k \in 1..(Len(s) - 1) |-> IF k < m THEN s[k] ELSE s[k + 1] ])

\* generateChainIdentities: the identities in creation order
spawnedIdentities(ch, startIdx, delegatorStartIdx, key0) ==
    LET validators == addValidators(ch, ch.validators, FALSE, startIdx, key0)
        k1 == key0 + Len(validators)
        committeeOnlyValidatorStartIdx == startIdx + ch.validators
        coValidators == addCommitteeOnly(ch, FALSE, committeeOnlyValidatorStartIdx, k1)
        k2 == k1 + Len(coValidators)
        fullNodeStartIdx == committeeOnlyValidatorStartIdx + Len(coValidators)
        delegators == addValidators(ch, ch.delegators, TRUE, delegatorStartIdx, k2)
        k3 == k2 + Len(delegators)
        coDelegators == addCommitteeOnly(ch, TRUE, delegatorStartIdx - ch.delegators, k3)
        k4 == k3 + Len(coDelegators)
        fullNodes == addFullNodes(ch, fullNodeStartIdx, k4)
    IN  validators \o coValidators \o delegators \o coDelegators \o fullNodes

\* generateChainIdentities: the returned identities and accounts
generateChainIdentities(ch, startIdx, delegatorStartIdx, key0) ==
    LET spawned == spawnedIdentities(ch, startIdx, delegatorStartIdx, key0)
    IN  [ identities |-> SortByID(spawned),
          accounts |-> [ i \in DOMAIN spawned |-> spawned[i].address ] \o addAccounts(ch) ]

\* main, Phase 1 loop body for chainNames[chainIdx]
GenerateChain ==
    /\ pc = "generate"
    /\ LET ch == cfg.chains[chainIdx]
           r == generateChainIdentities(ch, chainStartIndices(cfg, chainIdx),
                                        chainDelegatorStartIndices(cfg, chainIdx), nextKey)
       IN  /\ chainIdentitiesMap' = Append(chainIdentitiesMap, r.identities)
           /\ chainAccountsMap' = Append(chainAccountsMap, r.accounts)
           /\ allIdentities' = allIdentities \o r.identities
           /\ nextKey' = nextKey + Len(r.identities)
    /\ IF chainIdx = Len(cfg.chains)
       THEN pc' = "expand" /\ chainIdx' = 1
       ELSE pc' = pc /\ chainIdx' = chainIdx + 1
    /\ UNCHANGED <<phase1vars, restVars>>
    /\ UNCHANGED <<cfg, err, outputTree, chainToRootChain, expandedEntries,
                   genesisFiles, keystoreFiles, rootChainNodeAssignments,
                   peerNodeAssignments, assignIdx, idsKeys>>

-----------------------------------------------------------------------------
(* Multi-committee expansion *)

\* chainToRootChain is filled by ranging over the chains map, the last write
\* of an id wins: any chain with that id may decide its root.
ChainToRootChoices(c) ==
    LET ids == { c.chains[i].id : i \in ChainIndices(c) }
    IN  { m \in [ ids -> { c.chains[i].rootChain : i \in ChainIndices(c) } ] :
            \A id \in ids : \E i \in ChainIndices(c) :
                c.chains[i].id = id /\ c.chains[i].rootChain = m[id] }

\* a Go map read: the zero value for a missing key
MapGet(m, k) == IF k \in DOMAIN m THEN m[k] ELSE 0

\* expandedEntry that gives an expanded record a key of its own
expandedEntryRekeyed(identity, originalID, originalAddr, isRootChain) ==
    [ identity |-> IF identity.id = originalID THEN identity
                   ELSE [ identity EXCEPT !.address = 1000 + identity.id,
                                          !.publicKey = 1000 + identity.id ],
      originalID |-> originalID,
      originalAddr |-> originalAddr, isRootChain |-> isRootChain ]

\* expandedEntry that marks no entry as a root chain entry
expandedEntryNested(identity, originalID, originalAddr, isRootChain) ==
    [ identity |-> identity, originalID |-> originalID,
      originalAddr |-> originalAddr, isRootChain |-> FALSE ]

expandedEntry(identity, originalID, originalAddr, isRootChain) ==
    [ identity |-> identity, originalID |-> originalID,
      originalAddr |-> originalAddr, isRootChain |-> isRootChain ]

\* baseNodeCount that counts validators only
baseNodeCountValidatorsOnly(ids) == Len(SelectSeq(ids, LAMBDA v : v.nodeType = "validator"))

\* main: the count of validators and full nodes, and the lowest delegator id
baseNodeCount(ids) == Len(SelectSeq(ids, LAMBDA v : ~v.isDelegate))

lowestDelegatorID(ids) ==
    LET neg == { ids[i].id : i \in { j \in DOMAIN ids : ids[j].isDelegate /\ ids[j].id < 0 } }
    IN  IF neg = {} THEN 0 ELSE CHOOSE x \in neg : \A y \in neg : x <= y

\* the entries of the committees i.. of a multi-committee identity; returns
\* the entries and the two id cursors
RECURSIVE expandCommittees(_, _, _, _, _)
expandCommittees(ctr, identity, i, nextExpandedID, nextExpandedDelegatorID) ==
    IF i > Len(identity.committees)
    THEN [ entries |-> << >>, nextExpandedID |-> nextExpandedID,
           nextExpandedDelegatorID |-> nextExpandedDelegatorID ]
    ELSE LET committee == identity.committees[i]
         IN  IF i = 1
             THEN LET rest == expandCommittees(ctr, identity, i + 1, nextExpandedID,
                                               nextExpandedDelegatorID)
                  IN  [ rest EXCEPT !.entries =
                          << expandedEntry(identity, identity.id, identity.address,
                                 identity.chainId = MapGet(ctr, identity.chainId)) >> \o @ ]
             ELSE IF committee \notin identity.expandingCommittees
             THEN expandCommittees(ctr, identity, i + 1, nextExpandedID,
                                   nextExpandedDelegatorID)
             ELSE LET newID == IF identity.isDelegate THEN nextExpandedDelegatorID
                                                      ELSE nextExpandedID
                      expandedIdentity ==
                          [ identity EXCEPT !.id = newID, !.chainId = committee,
                                            !.genesisChainId = committee,
                                            !.netAddress = newID ]
                      rest == expandCommittees(ctr, identity, i + 1,
                                  IF identity.isDelegate THEN nextExpandedID
                                                         ELSE nextExpandedID + 1,
                                  IF identity.isDelegate THEN nextExpandedDelegatorID - 1
                                                         ELSE nextExpandedDelegatorID)
                  IN  [ rest EXCEPT !.entries =
                          << expandedEntry(expandedIdentity, identity.id, identity.address,
                                 committee = MapGet(ctr, committee)) >> \o @ ]

\* main: the expansion loop over the sorted identities k..
RECURSIVE expandFrom(_, _, _, _, _)
expandFrom(ctr, ids, k, nextExpandedID, nextExpandedDelegatorID) ==
    IF k > Len(ids) THEN << >>
    ELSE LET identity == ids[k]
         IN  IF identity.nodeType = "fullnode" \/ Len(identity.committees) = 1
             THEN << expandedEntry(identity, identity.id, identity.address,
                        identity.chainId = MapGet(ctr, identity.chainId)) >>
                  \o expandFrom(ctr, ids, k + 1, nextExpandedID, nextExpandedDelegatorID)
             ELSE LET r == expandCommittees(ctr, identity, 1, nextExpandedID,
                                            nextExpandedDelegatorID)
                  IN  r.entries \o expandFrom(ctr, ids, k + 1, r.nextExpandedID,
                                              r.nextExpandedDelegatorID)

expandAll(ctr, ids) ==
    expandFrom(ctr, ids, 1, baseNodeCount(ids) + 1, lowestDelegatorID(ids) - 1)

\* GenesisChainID with its fallback for the zero value
genesisChainIDOf(v) == IF v.genesisChainId = 0 THEN v.chainId ELSE v.genesisChainId

\* main: validators of the genesis validators section of chain id
chainGenesisValidators(entries, id) ==
    identitiesOf(SelectSeq(entries,
        LAMBDA e : e.identity.nodeType \in {"validator", "delegator"}
                   /\ genesisChainIDOf(e.identity) = id))

\* main: validators whose accounts and keystore entries go to chain id
chainKeystoreValidators(entries, id) ==
    identitiesOf(SelectSeq(entries,
        LAMBDA e : e.identity.nodeType \in {"validator", "delegator"}
                   /\ e.identity.chainId = id))

\* main: chainToRootChain, the sort of allIdentities and the expansion
Expand ==
    /\ pc = "expand"
    /\ \E ctr \in ChainToRootChoices(cfg) :
         /\ chainToRootChain' = ctr
         /\ allIdentities' = SortByID(allIdentities)
         /\ expandedEntries' = expandAll(ctr, SortByID(allIdentities))
    /\ pc' = "write"
    /\ UNCHANGED <<phase1vars, restVars>>
    /\ UNCHANGED <<cfg, err, outputTree, chainIdx, nextKey, chainIdentitiesMap,
                   chainAccountsMap, genesisFiles, keystoreFiles,
                   rootChainNodeAssignments, peerNodeAssignments, assignIdx, idsKeys>>

-----------------------------------------------------------------------------
(* Phase 2: chain files *)

\* committeesForGenesis without the reduction to this chain's committee
committeesForGenesisUnreduced(v, chainID) == v.committees

\* writeGenesisFromIdentities: the committees emitted for validator v in the
\* genesis of chain chainID
committeesForGenesis(v, chainID) ==
    LET isNativeValidator == Len(v.committees) > 0 /\ v.committees[1] = chainID
        isCommitteeOnlyValidator ==
            /\ genesisChainIDOf(v) = chainID
            /\ v.chainId # chainID
            /\ v.expandingCommittees = {}
    IN  IF isNativeValidator THEN v.committees
        ELSE IF isCommitteeOnlyValidator THEN v.committees
        ELSE <<chainID>>

\* writeGenesisFromIdentities: the validators array
writeGenesisFromIdentities(chainID, validators) ==
    [ n \in DOMAIN validators |->
        LET v == validators[n]
        IN  [ address |-> v.address, publicKey |-> v.publicKey,
              committees |-> committeesForGenesis(v, chainID),
              netAddress |-> IF v.isDelegate THEN Nil ELSE v.netAddress,
              output |-> v.address, delegate |-> v.isDelegate ] ]

\* writeChainFiles: validators of the keystore list whose address is not
\* among the addresses seen so far, first occurrence only
RECURSIVE crossChainAccounts(_, _)
crossChainAccounts(keystoreValidators, nativeAddresses) ==
    IF keystoreValidators = << >> THEN << >>
    ELSE LET v == Head(keystoreValidators)
         IN  IF v.address \in nativeAddresses
             THEN crossChainAccounts(Tail(keystoreValidators), nativeAddresses)
             ELSE <<v.address>>
                  \o crossChainAccounts(Tail(keystoreValidators),
                                        nativeAddresses \cup {v.address})

\* writeChainFiles: the accounts array of genesis.json
genesisAccounts(accounts, keystoreValidators) ==
    accounts \o crossChainAccounts(keystoreValidators, Range(accounts))

\* nickname that names every key after a node
nicknameNodeForAll(identity) == [ kind |-> "node", n |-> identity.id ]

\* writeChainFiles: keystore nickname of an identity
nickname(identity) ==
    IF identity.isDelegate THEN [ kind |-> "delegator", n |-> 0 - identity.id ]
                           ELSE [ kind |-> "node", n |-> identity.id ]

MapPut(m, k, v) == [ x \in DOMAIN m \cup {k} |-> IF x = k THEN v ELSE m[x] ]

\* writeChainFiles: NicknameMap after importing the identities in order
RECURSIVE importKeys(_, _)
importKeys(nicknameMap, identities) ==
    IF identities = << >> THEN nicknameMap
    ELSE importKeys(MapPut(nicknameMap, nickname(Head(identities)), Head(identities).address),
                    Tail(identities))

keystoreIdentities(chainIdentities, keystoreValidators) ==
    keystoreValidators \o SelectSeq(chainIdentities, LAMBDA v : v.nodeType = "fullnode")

ChainFileNames == { "genesis.json", "config.json", "keystore.json" }

\* main, Phase 2 loop body: writeChainFiles for chainNames[chainIdx]
WriteChain ==
    /\ pc = "write"
    /\ LET ch == cfg.chains[chainIdx]
           gv == chainGenesisValidators(expandedEntries, ch.id)
           kv == chainKeystoreValidators(expandedEntries, ch.id)
       IN  /\ genesisFiles' = Append(genesisFiles,
                 [ validators |-> writeGenesisFromIdentities(ch.id, gv),
                   accounts |-> genesisAccounts(chainAccountsMap[chainIdx], kv) ])
           /\ keystoreFiles' = Append(keystoreFiles,
                 importKeys(<< >>, keystoreIdentities(chainIdentitiesMap[chainIdx], kv)))
           /\ outputTree' = outputTree \cup { <<chainIdx, f>> : f \in ChainFileNames }
    /\ IF chainIdx = Len(cfg.chains)
       THEN pc' = "seed" /\ chainIdx' = 1
       ELSE pc' = pc /\ chainIdx' = chainIdx + 1
    /\ UNCHANGED <<phase1vars, restVars>>
    /\ UNCHANGED <<cfg, err, nextKey, chainIdentitiesMap, chainAccountsMap,
                   allIdentities, chainToRootChain, expandedEntries,
                   rootChainNodeAssignments, peerNodeAssignments, assignIdx, idsKeys>>

-----------------------------------------------------------------------------
(* Phase 3: rootChainNode and peerNode *)

\* main: ids of the validator entries on root chains, in entry order
rootChainNodeIDs(entries) ==
    idsOf(SelectSeq(entries, LAMBDA e : e.isRootChain /\ e.identity.nodeType = "validator"))

\* main: address -> id of the last root chain entry with that address
addressToRootChainID(entries) ==
    LET roots == { i \in DOMAIN entries : entries[i].isRootChain }
        last(a) == CHOOSE i \in roots : /\ entries[i].identity.address = a
                                        /\ \A j \in roots :
                                             entries[j].identity.address = a => j <= i
    IN  [ a \in { entries[i].identity.address : i \in roots } |-> entries[last(a)].identity.id ]

isValidatorEntry(e) == e.identity.nodeType = "validator" /\ ~e.identity.isDelegate

isCommitteeOnly(identity) ==
    genesisChainIDOf(identity) # identity.chainId /\ identity.expandingCommittees = {}

\* main: validators of nested chain id that have a root chain identity
nestedChainPeerNodes(entries, id) ==
    idsOf(SelectSeq(entries, LAMBDA e : /\ isValidatorEntry(e)
                                        /\ ~e.isRootChain
                                        /\ e.originalAddr \in DOMAIN addressToRootChainID(entries)
                                        /\ e.identity.chainId = id))

\* main: committee-only validators of chain id
committeeOnlyPeerNodes(entries, id) ==
    idsOf(SelectSeq(entries, LAMBDA e : /\ isValidatorEntry(e)
                                        /\ isCommitteeOnly(e.identity)
                                        /\ e.identity.chainId = id))

MapInc(m, k) == MapPut(m, k, MapGet(m, k) + 1)

\* main: the rootChainNode counters implied by self and repeated-identity pointers
RECURSIVE seedRootChainNodeAssignments(_, _, _)
seedRootChainNodeAssignments(entries, k, counts) ==
    IF k > Len(entries) THEN counts
    ELSE LET e == entries[k]
             a2r == addressToRootChainID(entries)
         IN  seedRootChainNodeAssignments(entries, k + 1,
                 IF e.identity.isDelegate THEN counts
                 ELSE IF e.isRootChain /\ e.identity.nodeType = "validator"
                 THEN MapInc(counts, e.identity.id)
                 ELSE IF e.originalAddr \in DOMAIN a2r /\ e.identity.nodeType = "validator"
                 THEN MapInc(counts, a2r[e.originalAddr])
                 ELSE counts)

\* main: the peerNode counters implied by self pointers
RECURSIVE seedPeerNodeAssignments(_, _, _)
seedPeerNodeAssignments(entries, k, counts) ==
    IF k > Len(entries) THEN counts
    ELSE LET e == entries[k]
             a2r == addressToRootChainID(entries)
         IN  seedPeerNodeAssignments(entries, k + 1,
                 IF ~isValidatorEntry(e) THEN counts
                 ELSE IF e.isRootChain THEN MapInc(counts, e.identity.id)
                 ELSE IF e.originalAddr \in DOMAIN a2r THEN MapInc(counts, e.identity.id)
                 ELSE IF isCommitteeOnly(e.identity) THEN MapInc(counts, e.identity.id)
                 ELSE counts)

\* ids that receive a zero peerNode counter
peerCounterIDs(entries) ==
    { e.identity.id : e \in { x \in Range(entries) :
          /\ isValidatorEntry(x)
          /\ \/ x.isRootChain
             \/ (~x.isRootChain /\ x.originalAddr \in DOMAIN addressToRootChainID(entries))
             \/ isCommitteeOnly(x.identity) } }

\* main: index structures and pre-seeded assignment counters
SeedCounters ==
    /\ pc = "seed"
    /\ rootChainNodeAssignments' =
          seedRootChainNodeAssignments(expandedEntries, 1,
              [ id \in Range(rootChainNodeIDs(expandedEntries)) |-> 0 ])
    /\ peerNodeAssignments' =
          seedPeerNodeAssignments(expandedEntries, 1,
              [ id \in peerCounterIDs(expandedEntries) |-> 0 ])
    /\ pc' = "assign"
    /\ UNCHANGED <<phase1vars, restVars>>
    /\ UNCHANGED <<cfg, err, outputTree, chainIdx, nextKey, chainIdentitiesMap,
                   chainAccountsMap, allIdentities, chainToRootChain, expandedEntries,
                   genesisFiles, keystoreFiles, assignIdx, idsKeys>>

\* findLeastAssigned*: the first id of ids with the fewest assignments
findLeastAssigned(ids, counts) ==
    LET first == CHOOSE i \in DOMAIN ids :
                    /\ \A j \in DOMAIN ids : MapGet(counts, ids[i]) <= MapGet(counts, ids[j])
                    /\ \A j \in 1..(i - 1) : MapGet(counts, ids[j]) > MapGet(counts, ids[i])
    IN  ids[first]

\* findLeastAssignedPeerNode: the candidate peers of nested chain id
peerCandidates(entries, id) ==
    IF nestedChainPeerNodes(entries, id) # << >>
    THEN nestedChainPeerNodes(entries, id)
    ELSE committeeOnlyPeerNodes(entries, id)

\* how entry e gets its rootChainNode: "self", "root" (its root chain entry) or "least"
rootChainNodeRule(entries, e) ==
    IF e.isRootChain THEN "self"
    ELSE IF e.originalAddr \in DOMAIN addressToRootChainID(entries) THEN "root"
    ELSE "least"

\* how entry e gets its peerNode: "self", "leastRoot" or "leastPeer"
peerNodeRule(entries, e) ==
    IF e.identity.nodeType = "validator"
    THEN IF e.isRootChain THEN "self"
         ELSE IF e.originalAddr \in DOMAIN addressToRootChainID(entries) THEN "self"
         ELSE IF isCommitteeOnly(e.identity) THEN "self"
         ELSE "leastPeer"
    ELSE IF e.identity.nodeType = "fullnode"
    THEN IF e.isRootChain THEN "leastRoot" ELSE "leastPeer"
    ELSE "none"

\* main, pointer assignment loop body for expandedEntries[assignIdx]; an empty
\* candidate list makes the indexing [0] panic
AssignPointers ==
    /\ pc = "assign"
    /\ assignIdx <= Len(expandedEntries)
    /\ LET e == expandedEntries[assignIdx]
           identity == e.identity
           rRule == rootChainNodeRule(expandedEntries, e)
           pRule == peerNodeRule(expandedEntries, e)
           roots == rootChainNodeIDs(expandedEntries)
           peers == peerCandidates(expandedEntries, identity.chainId)
       IN  IF identity.isDelegate
           THEN /\ assignIdx' = assignIdx + 1
                /\ UNCHANGED <<pc, err, rootChainNodeAssignments, peerNodeAssignments, idsKeys>>
           ELSE IF \/ (rRule = "least" /\ roots = << >>)
                   \/ (pRule = "leastRoot" /\ roots = << >>)
                   \/ (pRule = "leastPeer" /\ peers = << >>)
           THEN /\ pc' = "panic"
                /\ err' = << "index out of range" >>
                /\ UNCHANGED <<assignIdx, rootChainNodeAssignments, peerNodeAssignments, idsKeys>>
           ELSE LET rootChainNode ==
                        IF rRule = "self" THEN identity.id
                        ELSE IF rRule = "root"
                        THEN addressToRootChainID(expandedEntries)[e.originalAddr]
                        ELSE findLeastAssigned(roots, rootChainNodeAssignments)
                    peerNode ==
                        IF pRule = "self" THEN identity.id
                        ELSE IF pRule = "leastRoot"
                        THEN findLeastAssigned(roots, peerNodeAssignments)
                        ELSE findLeastAssigned(peers, peerNodeAssignments)
                IN  /\ rootChainNodeAssignments' =
                          IF rRule = "least" THEN MapInc(rootChainNodeAssignments, rootChainNode)
                                             ELSE rootChainNodeAssignments
                    /\ peerNodeAssignments' =
                          IF pRule \in {"leastRoot", "leastPeer"}
                          THEN MapInc(peerNodeAssignments, peerNode)
                          ELSE peerNodeAssignments
                    /\ idsKeys' = MapPut(idsKeys, identity.id,
                          [ identity EXCEPT !.rootChainNode = rootChainNode,
                                            !.peerNode = peerNode ])
                    /\ assignIdx' = assignIdx + 1
                    /\ UNCHANGED <<pc, err>>
    /\ UNCHANGED <<phase1vars, restVars>>
    /\ UNCHANGED <<cfg, outputTree, chainIdx, nextKey, chainIdentitiesMap,
                   chainAccountsMap, allIdentities, chainToRootChain, expandedEntries,
                   genesisFiles, keystoreFiles>>

\* main: mustSaveAsJSON of ids.json
SaveIds ==
    /\ pc = "assign"
    /\ assignIdx > Len(expandedEntries)
    /\ outputTree' = outputTree \cup { <<0, "ids.json">> }
    /\ pc' = "done"
    /\ UNCHANGED <<phase1vars, restVars>>
    /\ UNCHANGED <<cfg, err, chainIdx, nextKey, chainIdentitiesMap, chainAccountsMap,
                   allIdentities, chainToRootChain, expandedEntries, genesisFiles,
                   keystoreFiles, rootChainNodeAssignments, peerNodeAssignments,
                   assignIdx, idsKeys>>

\* main: loadMainAccounts returns an error (an unreadable or malformed
\* accounts file); os.Exit(1) after the output reset and before Phase 1
LoadMainAccountsFails ==
    /\ pc = "generate"
    /\ chainIdx = 1
    /\ pc' = "exit1"
    /\ err' = << "Error loading main accounts" >>
    /\ UNCHANGED <<phase1vars, restVars>>
    /\ UNCHANGED <<cfg, outputTree, chainIdx, nextKey, chainIdentitiesMap,
                   chainAccountsMap, allIdentities, chainToRootChain,
                   expandedEntries, genesisFiles, keystoreFiles,
                   rootChainNodeAssignments, peerNodeAssignments, assignIdx, idsKeys>>

\* mustCreateKey: the key generator returns an error and a worker of the
\* chain under generation panics
CreateKeyFails ==
    /\ pc = "generate"
    /\ pc' = "abort"
    /\ err' = << "key generation failed" >>
    /\ UNCHANGED <<phase1vars, restVars>>
    /\ UNCHANGED <<cfg, outputTree, chainIdx, nextKey, chainIdentitiesMap,
                   chainAccountsMap, allIdentities, chainToRootChain,
                   expandedEntries, genesisFiles, keystoreFiles,
                   rootChainNodeAssignments, peerNodeAssignments, assignIdx, idsKeys>>

\* writeChainFiles: creating or encoding one of the files of the chain panics;
\* the files written before it stay
WriteChainFails ==
    /\ pc = "write"
    /\ \E written \in { {}, {"genesis.json"}, {"genesis.json", "config.json"} } :
          outputTree' = outputTree \cup { <<chainIdx, f>> : f \in written }
    /\ pc' = "abort"
    /\ err' = << "write failed" >>
    /\ UNCHANGED <<phase1vars, restVars>>
    /\ UNCHANGED <<cfg, chainIdx, nextKey, chainIdentitiesMap,
                   chainAccountsMap, allIdentities, chainToRootChain,
                   expandedEntries, genesisFiles, keystoreFiles,
                   rootChainNodeAssignments, peerNodeAssignments, assignIdx, idsKeys>>

\* main: mustSaveAsJSON of ids.json panics on os.Create
SaveIdsFails ==
    /\ pc = "assign"
    /\ assignIdx > Len(expandedEntries)
    /\ pc' = "abort"
    /\ err' = << "write failed" >>
    /\ UNCHANGED <<phase1vars, restVars>>
    /\ UNCHANGED <<cfg, outputTree, chainIdx, nextKey, chainIdentitiesMap,
                   chainAccountsMap, allIdentities, chainToRootChain,
                   expandedEntries, genesisFiles, keystoreFiles,
                   rootChainNodeAssignments, peerNodeAssignments, assignIdx, idsKeys>>

Next ==
    \/ Validate
    \/ ResetOutput
    \/ GenerateChain
    \/ Expand
    \/ WriteChain
    \/ SeedCounters
    \/ AssignPointers
    \/ SaveIds
    \/ LoadMainAccountsFails
    \/ CreateKeyFails
    \/ WriteChainFails
    \/ SaveIdsFails

Spec == Init /\ [][Next]_vars

-----------------------------------------------------------------------------
(* Phase 1 with its goroutines: one worker per identity and per filler     *)
(* account, and the collector of accountChan                               *)

MaxBuffer == 1
MaxWorkerProfileSize == 4

InitWorkers ==
    /\ \E shape \in Shapes :
         \E v \in [ DOMAIN shape -> 0..MaxValidators ], f \in 0..MaxFullNodes,
            a \in 0..MaxAccounts, d \in 0..MaxDelegators,
            n \in 1..MaxCommitteeCount, m \in 0..MaxCommitteeCount :
              /\ ProfileSize(ShapeChains(shape, v, f, a, d, n, m)) <= MaxWorkerProfileSize
              /\ cfg = AppConfig(ShapeChains(shape, v, f, a, d, n, m), 0)
    /\ pc = "validate"
    /\ err = << >>
    /\ outputTree = StaleTree
    /\ chainIdx = 1
    /\ nextKey = 0
    /\ chainIdentitiesMap = << >>
    /\ chainAccountsMap = << >>
    /\ allIdentities = << >>
    /\ chainToRootChain = << >>
    /\ expandedEntries = << >>
    /\ genesisFiles = << >>
    /\ keystoreFiles = << >>
    /\ rootChainNodeAssignments = << >>
    /\ peerNodeAssignments = << >>
    /\ assignIdx = 1
    /\ idsKeys = << >>
    /\ buffer \in 0..MaxBuffer
    /\ wgPending = {}
    /\ appendedIdentities = << >>
    /\ accountChan = << >>
    /\ received = << >>
    /\ collectedAccounts = << >>
    /\ RestIdle

\* generateChainIdentities: the identities of chainNames[chainIdx] in the
\* order their workers are started, without keys
spawnedOfChain ==
    spawnedIdentities(cfg.chains[chainIdx], chainStartIndices(cfg, chainIdx),
                      chainDelegatorStartIndices(cfg, chainIdx), 0)

\* generateChainIdentities up to wg.Wait: every worker is started; workers
\* 1..Len(spawnedOfChain) create identities, the others filler accounts
SpawnWorkers ==
    /\ pc = "generate"
    /\ pc' = "workers"
    /\ wgPending' = 1..(Len(spawnedOfChain) + cfg.chains[chainIdx].accounts)
    /\ UNCHANGED restVars
    /\ UNCHANGED <<buffer, appendedIdentities, accountChan, received, collectedAccounts>>
    /\ UNCHANGED <<cfg, err, outputTree, chainIdx, nextKey, chainIdentitiesMap,
                   chainAccountsMap, allIdentities, chainToRootChain,
                   expandedEntries, genesisFiles, keystoreFiles,
                   rootChainNodeAssignments, peerNodeAssignments, assignIdx, idsKeys>>

\* the goroutine of addValidators, addCommitteeOnly*, addFullNodes or
\* addAccounts: create the key, send the account on accountChan (into the
\* buffer, or to the waiting collector), append the identity under the mutex
WorkerRuns ==
    /\ pc = "workers"
    /\ \E w \in wgPending :
         LET isIdentity == w <= Len(spawnedOfChain)
             key == nextKey + 1
             account == IF isIdentity THEN key
                        ELSE FillerAddress(w - Len(spawnedOfChain) - 1)
         IN  /\ \/ /\ Len(accountChan) < buffer
                   /\ accountChan' = Append(accountChan, account)
                   /\ received' = received
                \/ /\ accountChan = << >>
                   /\ received = << >>
                   /\ received' = << account >>
                   /\ accountChan' = accountChan
             /\ appendedIdentities' =
                   IF isIdentity
                   THEN Append(appendedIdentities,
                               [ spawnedOfChain[w] EXCEPT !.address = key, !.publicKey = key ])
                   ELSE appendedIdentities
             /\ nextKey' = IF isIdentity THEN key ELSE nextKey
             /\ wgPending' = wgPending \ {w}
    /\ UNCHANGED restVars
    /\ UNCHANGED <<buffer, collectedAccounts>>
    /\ UNCHANGED <<cfg, pc, err, outputTree, chainIdx, chainIdentitiesMap,
                   chainAccountsMap, allIdentities, chainToRootChain,
                   expandedEntries, genesisFiles, keystoreFiles,
                   rootChainNodeAssignments, peerNodeAssignments, assignIdx, idsKeys>>

\* the collector goroutine: for acc := range accountChan
CollectorReceives ==
    /\ pc = "workers"
    /\ received = << >>
    /\ accountChan # << >>
    /\ received' = << Head(accountChan) >>
    /\ accountChan' = Tail(accountChan)
    /\ UNCHANGED restVars
    /\ UNCHANGED <<buffer, wgPending, appendedIdentities, collectedAccounts>>
    /\ UNCHANGED <<cfg, pc, err, outputTree, chainIdx, nextKey, chainIdentitiesMap,
                   chainAccountsMap, allIdentities, chainToRootChain,
                   expandedEntries, genesisFiles, keystoreFiles,
                   rootChainNodeAssignments, peerNodeAssignments, assignIdx, idsKeys>>

\* the collector goroutine: accounts = append(accounts, acc)
CollectorAppends ==
    /\ pc = "workers"
    /\ received # << >>
    /\ collectedAccounts' = Append(collectedAccounts, received[1])
    /\ received' = << >>
    /\ UNCHANGED restVars
    /\ UNCHANGED <<buffer, wgPending, appendedIdentities, accountChan>>
    /\ UNCHANGED <<cfg, pc, err, outputTree, chainIdx, nextKey, chainIdentitiesMap,
                   chainAccountsMap, allIdentities, chainToRootChain,
                   expandedEntries, genesisFiles, keystoreFiles,
                   rootChainNodeAssignments, peerNodeAssignments, assignIdx, idsKeys>>

\* generateChainIdentities from wg.Wait on, and the loop body of Phase 1:
\* wg.Wait returns when every worker is done, the identities are sorted, and
\* accounts is returned as the collector has left it at that moment: nothing
\* waits for the collector to drain accountChan
ChainReturns ==
    /\ pc = "workers"
    /\ wgPending = {}
    /\ chainIdentitiesMap' = Append(chainIdentitiesMap, SortByID(appendedIdentities))
    /\ chainAccountsMap' = Append(chainAccountsMap, collectedAccounts)
    /\ allIdentities' = allIdentities \o SortByID(appendedIdentities)
    /\ IF chainIdx = Len(cfg.chains)
       THEN pc' = "expand" /\ chainIdx' = 1
       ELSE pc' = "generate" /\ chainIdx' = chainIdx + 1
    /\ appendedIdentities' = << >>
    /\ accountChan' = << >>
    /\ received' = << >>
    /\ collectedAccounts' = << >>
    /\ UNCHANGED restVars
    /\ UNCHANGED <<buffer, wgPending>>
    /\ UNCHANGED <<cfg, err, outputTree, nextKey, chainToRootChain, expandedEntries,
                   genesisFiles, keystoreFiles, rootChainNodeAssignments,
                   peerNodeAssignments, assignIdx, idsKeys>>

NextWorkers ==
    \/ Validate
    \/ ResetOutput
    \/ SpawnWorkers
    \/ WorkerRuns
    \/ CollectorReceives
    \/ CollectorAppends
    \/ ChainReturns
    \/ Expand
    \/ WriteChain
    \/ SeedCounters
    \/ AssignPointers
    \/ SaveIds
    \/ LoadMainAccountsFails
    \/ CreateKeyFails
    \/ WriteChainFails
    \/ SaveIdsFails

SpecWorkers == InitWorkers /\ [][NextWorkers]_vars

-----------------------------------------------------------------------------
(* Phase 1 step by step: the semaphore, the account and nickname channels, *)
(* the mutex of the identity list and the wait group                       *)

MaxConcurrency == 2
MaxSemaphoreProfileSize == 2
NickNamesBuffer == 1000

\* the part of the generator's state that the steps of a worker leave alone
mainVars ==
    <<cfg, pc, err, outputTree, chainIdx, chainIdentitiesMap, chainAccountsMap,
      allIdentities, chainToRootChain, expandedEntries, genesisFiles, keystoreFiles,
      rootChainNodeAssignments, peerNodeAssignments, assignIdx, idsKeys>>

\* the profiles drawn have one chain or two
SemaphoreShapes == { shape \in Shapes : Len(shape) <= 2 }

InitSemaphore ==
    /\ \E shape \in SemaphoreShapes :
         \E v \in [ DOMAIN shape -> 0..MaxValidators ], f \in 0..MaxFullNodes,
            a \in 0..MaxAccounts, d \in 0..MaxDelegators,
            n \in 1..MaxCommitteeCount, m \in 0..MaxCommitteeCount :
              /\ ProfileSize(ShapeChains(shape, v, f, a, d, n, m)) <= MaxSemaphoreProfileSize
              /\ cfg = AppConfig(ShapeChains(shape, v, f, a, d, n, m), 0)
    /\ pc = "validate"
    /\ err = << >>
    /\ outputTree = StaleTree
    /\ chainIdx = 1
    /\ nextKey = 0
    /\ chainIdentitiesMap = << >>
    /\ chainAccountsMap = << >>
    /\ allIdentities = << >>
    /\ chainToRootChain = << >>
    /\ expandedEntries = << >>
    /\ genesisFiles = << >>
    /\ keystoreFiles = << >>
    /\ rootChainNodeAssignments = << >>
    /\ peerNodeAssignments = << >>
    /\ assignIdx = 1
    /\ idsKeys = << >>
    /\ buffer \in 0..MaxBuffer
    /\ wgPending = {}
    /\ appendedIdentities = << >>
    /\ accountChan = << >>
    /\ received = << >>
    /\ collectedAccounts = << >>
    /\ concurrency \in 0..MaxConcurrency
    /\ workerState = << >>
    /\ mutexHolder = Nil
    /\ nickNamesLen = 0
    /\ PipelineIdle
    /\ BroadcastIdle
    /\ tree = << >>
    /\ apc = "idle"
    /\ runs = 0
    /\ dataByType = << >>
    /\ pendingConfigMaps = {}
    /\ chainsTodo = << >>
    /\ configMaps = << >>
    /\ services = << >>
    /\ apiLog = << >>
    /\ clusterAtStart = << >>

\* a worker at position at, with the key it created and the identity slice it
\* has read
Worker(at, key, seen) == [ at |-> at, key |-> key, seen |-> seen ]

\* the workers that have sent on semaphoreChan and not yet received from it
holders ==
    { w \in DOMAIN workerState :
        workerState[w].at \in {"send", "lock", "write", "nick"} }

\* a variant of semaphoreHasRoom for a semaphore without capacity limit
semaphoreUnbounded == TRUE

\* semaphoreChan <- struct{}{} can proceed: the channel, of capacity
\* general.concurrency, is not full (nothing ever receives from it but the
\* deferred release of a holder)
semaphoreHasRoom == Cardinality(holders) < concurrency

\* a variant of mutexFree for appends without the mutex
mutexIgnored == TRUE

\* gsync.Lock() can proceed
mutexFree == mutexHolder = Nil

\* generateChainIdentities up to wg.Wait: every worker is started; workers
\* 1..Len(spawnedOfChain) create identities, each with a key of its own, the
\* others filler accounts
SpawnGoroutines ==
    /\ pc = "generate"
    /\ pc' = "workers"
    /\ wgPending' = 1..(Len(spawnedOfChain) + cfg.chains[chainIdx].accounts)
    /\ workerState' = [ w \in 1..(Len(spawnedOfChain) + cfg.chains[chainIdx].accounts) |->
                          Worker("acquire", Nil, << >>) ]
    /\ mutexHolder' = Nil
    /\ nextKey' = nextKey + Len(spawnedOfChain)
    /\ UNCHANGED <<applierVars, pipelineVars, broadcastVars>>
    /\ UNCHANGED <<concurrency, nickNamesLen>>
    /\ UNCHANGED <<buffer, appendedIdentities, accountChan, received, collectedAccounts>>
    /\ UNCHANGED <<cfg, err, outputTree, chainIdx, chainIdentitiesMap,
                   chainAccountsMap, allIdentities, chainToRootChain,
                   expandedEntries, genesisFiles, keystoreFiles,
                   rootChainNodeAssignments, peerNodeAssignments, assignIdx, idsKeys>>

\* a worker: semaphoreChan <- struct{}{}
AcquireSemaphore ==
    /\ pc = "workers"
    /\ semaphoreHasRoom
    /\ \E w \in DOMAIN workerState :
         /\ workerState[w].at = "acquire"
         /\ workerState' = [ workerState EXCEPT ![w].at = "send" ]
    /\ UNCHANGED <<applierVars, pipelineVars, broadcastVars>>
    /\ UNCHANGED <<concurrency, mutexHolder, nickNamesLen>>
    /\ UNCHANGED <<phase1vars, nextKey, mainVars>>

\* a worker: mustCreateKey (not for a filler account; the keys of a chain's
\* workers are numbered by worker) and accountChan <- account,
\* into the buffer or to the waiting collector
SendAccount ==
    /\ pc = "workers"
    /\ \E w \in DOMAIN workerState :
         LET isIdentity == w <= Len(spawnedOfChain)
             key == nextKey - Len(spawnedOfChain) + w
             account == IF isIdentity THEN key
                        ELSE FillerAddress(w - Len(spawnedOfChain) - 1)
         IN  /\ workerState[w].at = "send"
             /\ \/ /\ Len(accountChan) < buffer
                   /\ accountChan' = Append(accountChan, account)
                   /\ received' = received
                \/ /\ accountChan = << >>
                   /\ received = << >>
                   /\ received' = << account >>
                   /\ accountChan' = accountChan
             /\ workerState' = [ workerState EXCEPT
                                   ![w] = IF isIdentity
                                          THEN Worker("lock", key, << >>)
                                          ELSE Worker("nick", Nil, << >>) ]
    /\ UNCHANGED <<applierVars, pipelineVars, broadcastVars>>
    /\ UNCHANGED <<concurrency, mutexHolder, nickNamesLen>>
    /\ UNCHANGED <<buffer, wgPending, appendedIdentities, collectedAccounts>>
    /\ UNCHANGED <<nextKey, mainVars>>

\* a worker: gsync.Lock(), and append(*identities, identity) reads the slice
LockMutex ==
    /\ pc = "workers"
    /\ mutexFree
    /\ \E w \in DOMAIN workerState :
         /\ workerState[w].at = "lock"
         /\ workerState' = [ workerState EXCEPT ![w].at = "write",
                                                ![w].seen = appendedIdentities ]
         /\ mutexHolder' = w
    /\ UNCHANGED <<applierVars, pipelineVars, broadcastVars>>
    /\ UNCHANGED <<concurrency, nickNamesLen>>
    /\ UNCHANGED <<phase1vars, nextKey, mainVars>>

\* a worker: *identities = the slice read with the identity appended, and
\* gsync.Unlock()
AppendIdentity ==
    /\ pc = "workers"
    /\ \E w \in DOMAIN workerState :
         /\ workerState[w].at = "write"
         /\ appendedIdentities' =
               Append(workerState[w].seen,
                      [ spawnedOfChain[w] EXCEPT !.address = workerState[w].key,
                                                 !.publicKey = workerState[w].key ])
         /\ workerState' = [ workerState EXCEPT ![w] = Worker("nick", Nil, << >>) ]
    /\ mutexHolder' = Nil
    /\ UNCHANGED <<applierVars, pipelineVars, broadcastVars>>
    /\ UNCHANGED <<concurrency, nickNamesLen>>
    /\ UNCHANGED <<buffer, wgPending, accountChan, received, collectedAccounts>>
    /\ UNCHANGED <<nextKey, mainVars>>

\* a worker: nickNames <- its nickname, and it returns: the deferred
\* <-semaphoreChan and wg.Done()
WorkerReturns ==
    /\ pc = "workers"
    /\ nickNamesLen < NickNamesBuffer
    /\ \E w \in DOMAIN workerState :
         /\ workerState[w].at = "nick"
         /\ workerState' = [ workerState EXCEPT ![w].at = "done" ]
         /\ wgPending' = wgPending \ {w}
    /\ nickNamesLen' = nickNamesLen + 1
    /\ UNCHANGED <<applierVars, pipelineVars, broadcastVars>>
    /\ UNCHANGED <<concurrency, mutexHolder>>
    /\ UNCHANGED <<buffer, appendedIdentities, accountChan, received, collectedAccounts>>
    /\ UNCHANGED <<nextKey, mainVars>>

\* logData's goroutine: for nickname := range nickNames
LogDataReceives ==
    /\ nickNamesLen > 0
    /\ nickNamesLen' = nickNamesLen - 1
    /\ UNCHANGED <<applierVars, pipelineVars, broadcastVars>>
    /\ UNCHANGED <<concurrency, workerState, mutexHolder>>
    /\ UNCHANGED <<phase1vars, nextKey, mainVars>>

NextSemaphore ==
    \/ Validate
    \/ ResetOutput
    \/ SpawnGoroutines
    \/ AcquireSemaphore
    \/ SendAccount
    \/ LockMutex
    \/ AppendIdentity
    \/ WorkerReturns
    \/ LogDataReceives
    \/ CollectorReceives
    \/ CollectorAppends
    \/ ChainReturns

SpecSemaphore == InitSemaphore /\ [][NextSemaphore]_vars

\* the Go scheduler runs every goroutine that can take a step
SpecSemaphoreFair ==
    /\ SpecSemaphore
    /\ WF_vars(Validate)
    /\ WF_vars(ResetOutput)
    /\ WF_vars(SpawnGoroutines)
    /\ WF_vars(AcquireSemaphore)
    /\ WF_vars(SendAccount)
    /\ WF_vars(LockMutex)
    /\ WF_vars(AppendIdentity)
    /\ WF_vars(WorkerReturns)
    /\ WF_vars(LogDataReceives)
    /\ WF_vars(CollectorReceives)
    /\ WF_vars(CollectorAppends)
    /\ WF_vars(ChainReturns)

-----------------------------------------------------------------------------
(* k8s-applier (go-scripts/k8s-applier): one run of main() over an artifact *)
(* tree, and a further run over the same tree and namespace                 *)

MaxRuns == 2
MaxApplierChainID == 2
MaxIdsNodes == 3

StartPort == 1000
RpcPort == 50002

FileTypes == {"genesis", "keystore", "config"}

\* a directory entry name: what precedes the trailing digits, and the digits
EntryName(prefix, digits) == [ prefix |-> prefix, digits |-> digits ]

\* chainRegex: ^chain_(\d+)$
chainRegexMatch(name) == name.prefix = "chain_" /\ name.digits # << >>

\* strconv.Atoi of a string of decimal digits
RECURSIVE Atoi(_)
Atoi(ds) ==
    IF ds = << >> THEN 0 ELSE 10 * Atoi(SubSeq(ds, 1, Len(ds) - 1)) + ds[Len(ds)]

\* getChainID: the number after chain_
getChainID(name) == Atoi(name.digits)

\* buildEntryKey: fmt.Sprintf("%s_%d%s", fileName, chainID, ext)
buildEntryKey(fileType, chainID) == [ kind |-> fileType, id |-> chainID ]

\* string order of two digit strings
RECURSIVE LexLess(_, _)
LexLess(a, b) ==
    IF a = << >> THEN b # << >>
    ELSE IF b = << >> THEN FALSE
    ELSE IF a[1] # b[1] THEN a[1] < b[1]
    ELSE LexLess(Tail(a), Tail(b))

\* getChainFolders: the directories whose name matches chainRegex
getChainFolders(t) ==
    { e.name : e \in { x \in t.entries : x.isDir /\ chainRegexMatch(x.name) } }

\* sort.Strings(folders)
RECURSIVE SortStrings(_)
SortStrings(names) ==
    IF names = {} THEN << >>
    ELSE LET first == CHOOSE n \in names :
                         \A o \in names \ {n} : LexLess(n.digits, o.digits)
         IN  << first >> \o SortStrings(names \ {first})

\* the files of folder name in tree t
FolderFiles(t, name) == (CHOOSE e \in t.entries : e.name = name /\ e.isDir).files

\* readJSONFile: the document, re-indented
readJSONFile(file) == << "indented", file.doc >>

\* buildDataMaps, one file type: the entries of the folders in order, a later
\* folder overwriting the entry of an earlier one under the same key
RECURSIVE chainFileEntries(_, _, _, _)
chainFileEntries(t, fileType, folders, files) ==
    IF folders = << >> THEN files
    ELSE chainFileEntries(t, fileType, Tail(folders),
             MapPut(files, buildEntryKey(fileType, getChainID(Head(folders))),
                    readJSONFile(FolderFiles(t, Head(folders))[fileType])))

IdsKey == [ kind |-> "ids", id |-> Nil ]

\* a variant of buildDataMaps that takes every file as it is
buildDataMapsUnchecked(t, folders) ==
    [ ok |-> TRUE,
      data |-> [ ft \in FileTypes \cup {"ids"} |->
                   IF ft = "ids"
                   THEN MapPut(<< >>, IdsKey, readJSONFile(t.ids))
                   ELSE chainFileEntries(t, ft, folders, << >>) ] ]

\* buildDataMaps: an error when a file cannot be read or is not JSON, else
\* dataByType
buildDataMaps(t, folders) ==
    IF \/ \E i \in DOMAIN folders : \E ft \in FileTypes :
             FolderFiles(t, folders[i])[ft].status # "ok"
       \/ t.ids.status \in {"missing", "malformed"}
    THEN [ ok |-> FALSE, data |-> << >> ]
    ELSE [ ok |-> TRUE,
           data |-> [ ft \in FileTypes \cup {"ids"} |->
                        IF ft = "ids"
                        THEN MapPut(<< >>, IdsKey, readJSONFile(t.ids))
                        ELSE chainFileEntries(t, ft, folders, << >>) ] ]

\* buildConfigMapsFromData: the file types with data
buildConfigMapsFromData(data) == { ft \in DOMAIN data : DOMAIN data[ft] # {} }

\* getChains: the distinct chainIds of ids.json, in map iteration order
RECURSIVE Orderings(_)
Orderings(set) ==
    IF set = {} THEN { << >> }
    ELSE UNION { { << x >> \o o : o \in Orderings(set \ {x}) } : x \in set }

getChains(keys) == Orderings({ keys[n] : n \in DOMAIN keys })

\* a variant of Service that exposes startPort for every chain
ServiceOnStartPort(chainID) ==
    [ name |-> << "rpc-lb-chain-", chainID >>,
      labels |-> "type=chain",
      type |-> "LoadBalancer",
      selector |-> [ app |-> "node", chainId |-> chainID ],
      portName |-> "rpc",
      port |-> StartPort,
      targetPort |-> RpcPort ]

ServiceName(chainID) == << "rpc-lb-chain-", chainID >>

\* createServices: the service of a chain
Service(chainID) ==
    [ name |-> ServiceName(chainID),
      labels |-> "type=chain",
      type |-> "LoadBalancer",
      selector |-> [ app |-> "node", chainId |-> chainID ],
      portName |-> "rpc",
      port |-> StartPort + chainID,
      targetPort |-> RpcPort ]

\* the genesis generator has not run
GeneratorIdle ==
    /\ cfg = << >>
    /\ pc = "idle"
    /\ err = << >>
    /\ outputTree = {}
    /\ chainIdx = 1
    /\ nextKey = 0
    /\ chainIdentitiesMap = << >>
    /\ chainAccountsMap = << >>
    /\ allIdentities = << >>
    /\ chainToRootChain = << >>
    /\ expandedEntries = << >>
    /\ genesisFiles = << >>
    /\ keystoreFiles = << >>
    /\ rootChainNodeAssignments = << >>
    /\ peerNodeAssignments = << >>
    /\ assignIdx = 1
    /\ idsKeys = << >>
    /\ buffer = 0
    /\ wgPending = {}
    /\ appendedIdentities = << >>
    /\ accountChan = << >>
    /\ received = << >>
    /\ collectedAccounts = << >>

\* entries that are no chain folder: a directory of another name and a plain
\* file with a chain folder's name
OtherEntries ==
    { [ name |-> EntryName("mainnet", << >>), isDir |-> TRUE, files |-> << >> ],
      [ name |-> EntryName("chain_", << 9 >>), isDir |-> FALSE, files |-> << >> ] }

\* a file as the generator leaves it, and the ways it can be defective
File(status, doc) == [ status |-> status, doc |-> doc ]

FileDefects == {"missing", "malformed"}

\* the artifact tree with chain folders names beside the other entries, ids.json
\* holding doc, and the one defect: << >> for none, << "ids", status >>, or
\* << name, fileType, status >>
ArtifactTree(names, doc, defect) ==
    [ entries |->
        { [ name |-> n, isDir |-> TRUE,
            files |-> [ ft \in FileTypes |->
                          File(IF defect = << n, ft, "missing" >> THEN "missing"
                               ELSE IF defect = << n, ft, "malformed" >> THEN "malformed"
                               ELSE "ok",
                               << ft, n >>) ] ] : n \in names }
        \cup OtherEntries,
      ids |-> File(IF defect = << "ids", "missing" >> THEN "missing"
                   ELSE IF defect = << "ids", "malformed" >> THEN "malformed"
                   ELSE "ok",
                   doc) ]

\* a ConfigMap, and a service, that the namespace may hold before the first run
StaleConfigMap ==
    [ data |-> MapPut(<< >>, buildEntryKey("genesis", 9), << "indented", "stale" >>),
      owner |-> "other" ]

ForeignService == [ Service(1) EXCEPT !.labels = "other" ]

\* the sets of chain folders drawn: chain_1 .. chain_k, and chain_01 with chain_1
FolderSets ==
    { { EntryName("chain_", << i >>) : i \in 1..k } : k \in 0..MaxApplierChainID }
    \cup { { EntryName("chain_", << 0, 1 >>), EntryName("chain_", << 1 >>) } }

\* the documents drawn for ids.json: a keys object of up to MaxIdsNodes nodes
\* (the node names are opaque, so the nodes are listed by chain id), or
\* well-formed JSON of another shape
IdsDocs ==
    { [ wellShaped |-> TRUE, keys |-> f ] :
        f \in { g \in UNION { [ 1..k -> 1..MaxApplierChainID ] : k \in 0..MaxIdsNodes } :
                  \A i \in DOMAIN g : i = 1 \/ g[i - 1] <= g[i] } }
    \cup { [ wellShaped |-> FALSE, keys |-> << >> ] }

InitApplier ==
    /\ GeneratorIdle
    /\ SemaphoreIdle
    /\ PipelineIdle
    /\ BroadcastIdle
    /\ \E names \in FolderSets, doc \in IdsDocs :
          \E defect \in { << >> }
                        \cup { << "ids", d >> : d \in FileDefects }
                        \cup { << n, ft, d >> : n \in names, ft \in FileTypes,
                                                d \in FileDefects } :
             tree = ArtifactTree(names, doc, defect)
    /\ apc = "start"
    /\ runs = 1
    /\ dataByType = << >>
    /\ pendingConfigMaps = {}
    /\ chainsTodo = << >>
    /\ configMaps \in { << >>, MapPut(<< >>, "genesis", StaleConfigMap) }
    /\ services \in { << >>, MapPut(<< >>, ServiceName(1), ForeignService) }
    /\ apiLog = << >>
    /\ clusterAtStart = [ configMaps |-> configMaps, services |-> services,
                          previous |-> "none" ]

\* main up to the first API call: chain folders, clientset, buildDataMaps
BuildData ==
    /\ apc = "start"
    /\ LET folders == SortStrings(getChainFolders(tree))
           r == buildDataMaps(tree, folders)
       IN  IF folders = << >>
           THEN /\ apc' = "exit0"
                /\ UNCHANGED <<dataByType, pendingConfigMaps>>
           ELSE \/ /\ apc' = "exit1"          \* buildClientSet fails
                   /\ UNCHANGED <<dataByType, pendingConfigMaps>>
                \/ IF r.ok
                   THEN /\ dataByType' = r.data
                        /\ pendingConfigMaps' = buildConfigMapsFromData(r.data)
                        /\ apc' = "apply"
                   ELSE /\ apc' = "exit1"
                        /\ UNCHANGED <<dataByType, pendingConfigMaps>>
    /\ UNCHANGED <<tree, runs, chainsTodo, configMaps, services, apiLog, clusterAtStart>>
    /\ UNCHANGED <<generatorVars, phase1vars, semaphoreVars, pipelineVars, broadcastVars>>

\* a variant of applyConfigMap that adds the new data to the existing data
applyConfigMapMerging(cms, name, data) ==
    MapPut(cms, name,
           IF name \in DOMAIN cms
           THEN [ cms[name] EXCEPT !.data =
                    [ k \in DOMAIN cms[name].data \cup DOMAIN data |->
                        IF k \in DOMAIN data THEN data[k] ELSE cms[name].data[k] ] ]
           ELSE [ data |-> data, owner |-> "applier" ])

\* applyConfigMap, its calls succeeding: Create, and on already-exists Get,
\* overwrite Data, Update
applyConfigMap(cms, name, data) ==
    MapPut(cms, name,
           IF name \in DOMAIN cms
           THEN [ cms[name] EXCEPT !.data = data ]
           ELSE [ data |-> data, owner |-> "applier" ])

\* main's loop over the ConfigMaps, one turn: applyConfigMap succeeds, or one of
\* its calls fails and the run exits
ApplyConfigMap ==
    /\ apc = "apply"
    /\ \E name \in pendingConfigMaps :
         \/ /\ configMaps' = applyConfigMap(configMaps, name, dataByType[name])
            /\ pendingConfigMaps' = pendingConfigMaps \ {name}
            /\ apiLog' = Append(apiLog, [ call |-> "configmap", ok |-> TRUE ])
            /\ apc' = apc
         \/ /\ apiLog' = Append(apiLog, [ call |-> "configmap", ok |-> FALSE ])
            /\ apc' = "exit1"
            /\ UNCHANGED <<configMaps, pendingConfigMaps>>
    /\ UNCHANGED <<tree, runs, dataByType, chainsTodo, services, clusterAtStart>>
    /\ UNCHANGED <<generatorVars, phase1vars, semaphoreVars, pipelineVars, broadcastVars>>

\* main: json.Unmarshal of ids.json into Keys, and getChains
ParseIds ==
    /\ apc = "apply"
    /\ pendingConfigMaps = {}
    /\ LET ids == dataByType["ids"][IdsKey][2]
       IN  IF ids.wellShaped
           THEN /\ chainsTodo' \in getChains(ids.keys)
                /\ apc' = "services"
           ELSE /\ apc' = "exit1"
                /\ chainsTodo' = chainsTodo
    /\ UNCHANGED <<tree, runs, dataByType, pendingConfigMaps, configMaps, services,
                   apiLog, clusterAtStart>>
    /\ UNCHANGED <<generatorVars, phase1vars, semaphoreVars, pipelineVars, broadcastVars>>

\* a variant of CreateService that logs a failed Create and goes on with the
\* next chain
CreateServiceContinuing ==
    /\ apc = "services"
    /\ chainsTodo # << >>
    /\ LET chainID == Head(chainsTodo)
       IN  \/ /\ ServiceName(chainID) \notin DOMAIN services
              /\ services' = MapPut(services, ServiceName(chainID), Service(chainID))
              /\ apiLog' = Append(apiLog, [ call |-> "service", ok |-> TRUE ])
           \/ /\ apiLog' = Append(apiLog, [ call |-> "service", ok |-> FALSE ])
              /\ UNCHANGED services
    /\ chainsTodo' = Tail(chainsTodo)
    /\ UNCHANGED <<tree, apc, runs, dataByType, pendingConfigMaps, configMaps, clusterAtStart>>
    /\ UNCHANGED <<generatorVars, phase1vars, semaphoreVars, pipelineVars, broadcastVars>>

\* createServices, one turn of the loop: Create fails when a service of that
\* name exists, and can fail otherwise
CreateService ==
    /\ apc = "services"
    /\ chainsTodo # << >>
    /\ LET chainID == Head(chainsTodo)
       IN  \/ /\ ServiceName(chainID) \notin DOMAIN services
              /\ services' = MapPut(services, ServiceName(chainID), Service(chainID))
              /\ chainsTodo' = Tail(chainsTodo)
              /\ apiLog' = Append(apiLog, [ call |-> "service", ok |-> TRUE ])
              /\ apc' = apc
           \/ /\ apiLog' = Append(apiLog, [ call |-> "service", ok |-> FALSE ])
              /\ apc' = "exit1"
              /\ UNCHANGED <<services, chainsTodo>>
    /\ UNCHANGED <<tree, runs, dataByType, pendingConfigMaps, configMaps, clusterAtStart>>
    /\ UNCHANGED <<generatorVars, phase1vars, semaphoreVars, pipelineVars, broadcastVars>>

\* main: createServices has returned nil
FinishApply ==
    /\ apc = "services"
    /\ chainsTodo = << >>
    /\ apc' = "done"
    /\ UNCHANGED <<tree, runs, dataByType, pendingConfigMaps, chainsTodo, configMaps,
                   services, apiLog, clusterAtStart>>
    /\ UNCHANGED <<generatorVars, phase1vars, semaphoreVars, pipelineVars, broadcastVars>>

\* the applier is started again over the same tree and namespace
RunAgain ==
    /\ apc \in {"done", "exit0", "exit1"}
    /\ runs < MaxRuns
    /\ runs' = runs + 1
    /\ apc' = "start"
    /\ dataByType' = << >>
    /\ pendingConfigMaps' = {}
    /\ chainsTodo' = << >>
    /\ apiLog' = << >>
    /\ clusterAtStart' = [ configMaps |-> configMaps, services |-> services,
                           previous |-> apc ]
    /\ UNCHANGED <<tree, configMaps, services>>
    /\ UNCHANGED <<generatorVars, phase1vars, semaphoreVars, pipelineVars, broadcastVars>>

NextApplier ==
    \/ BuildData
    \/ ApplyConfigMap
    \/ ParseIds
    \/ CreateService
    \/ FinishApply
    \/ RunAgain

SpecApplier == InitApplier /\ [][NextApplier]_vars

-----------------------------------------------------------------------------
(* populator: the block notifier's channel, the broadcaster's goroutine and *)
(* the two subscribers HandleSendTxs and HandleTxs                          *)

MaxHeights == 3
MaxSendCount == 1
Subscribers == 2

\* the two NewBroadcaster of the repository: the one whose send blocks, and the
\* generic one whose send is a select with a default branch
BroadcasterKinds == {"blocking", "select"}

InitBroadcast ==
    /\ GeneratorIdle
    /\ ApplierIdle
    /\ SemaphoreIdle
    /\ PipelineIdle
    /\ broadcasterKind \in BroadcasterKinds
    /\ sendCount \in 0..MaxSendCount
    /\ emitted = 0
    /\ srcClosed = FALSE
    /\ bpc = "recv"
    /\ bval = 0
    /\ bidx = 0
    /\ subState = [ i \in 1..Subscribers |-> "starting" ]
    /\ delivered = [ i \in 1..Subscribers |-> << >> ]
    /\ subClosed = [ i \in 1..Subscribers |-> FALSE ]

\* the notifier sends the next height on its unbuffered channel and the
\* broadcaster's range receives it
NotifierEmits ==
    /\ ~srcClosed
    /\ emitted < MaxHeights
    /\ bpc = "recv"
    /\ emitted' = emitted + 1
    /\ bval' = emitted + 1
    /\ bidx' = 1
    /\ bpc' = "send"
    /\ UNCHANGED <<broadcasterKind, sendCount, srcClosed, subState, delivered, subClosed>>
    /\ UNCHANGED <<generatorVars, phase1vars, applierVars, semaphoreVars, pipelineVars>>

\* the notifier's run returns: defer close(n.heightCh)
NotifierCloses ==
    /\ bpc # "idle"
    /\ ~srcClosed
    /\ srcClosed' = TRUE
    /\ UNCHANGED <<broadcasterKind, sendCount, emitted, bpc, bval, bidx, subState,
                   delivered, subClosed>>
    /\ UNCHANGED <<generatorVars, phase1vars, applierVars, semaphoreVars, pipelineVars>>

\* the broadcaster's inner loop, one subscriber: ch <- v succeeds when the
\* subscriber is waiting in its receive; otherwise the blocking send waits and
\* the select takes its default branch
Relay ==
    /\ bpc = "send"
    /\ \/ /\ subState[bidx] = "ready"
          /\ delivered' = [ delivered EXCEPT ![bidx] = Append(@, bval) ]
          /\ subState' = [ subState EXCEPT ![bidx] = "busy" ]
       \/ /\ subState[bidx] # "ready"
          /\ broadcasterKind = "select"
          /\ UNCHANGED <<delivered, subState>>
    /\ IF bidx = Subscribers
       THEN bpc' = "recv" /\ bidx' = 0
       ELSE bpc' = bpc /\ bidx' = bidx + 1
    /\ UNCHANGED <<broadcasterKind, sendCount, emitted, srcClosed, bval, subClosed>>
    /\ UNCHANGED <<generatorVars, phase1vars, applierVars, semaphoreVars, pipelineVars>>

\* the broadcaster after its range over the closed source: close every
\* subscriber channel
BroadcasterCloses ==
    /\ bpc = "recv"
    /\ srcClosed
    /\ bpc' = "closed"
    /\ subClosed' = [ i \in 1..Subscribers |-> TRUE ]
    /\ UNCHANGED <<broadcasterKind, sendCount, emitted, srcClosed, bval, bidx,
                   subState, delivered>>
    /\ UNCHANGED <<generatorVars, phase1vars, applierVars, semaphoreVars, pipelineVars>>

\* a handler starts: HandleSendTxs returns at once when the profile has no send
\* transactions, otherwise the handler enters its range over the channel
SubscriberStarts ==
    /\ \E i \in 1..Subscribers :
         /\ subState[i] = "starting"
         /\ subState' = [ subState EXCEPT
                            ![i] = IF i = 1 /\ sendCount = 0 THEN "gone" ELSE "ready" ]
    /\ UNCHANGED <<broadcasterKind, sendCount, emitted, srcClosed, bpc, bval, bidx,
                   delivered, subClosed>>
    /\ UNCHANGED <<generatorVars, phase1vars, applierVars, semaphoreVars, pipelineVars>>

\* a handler has executed the transactions of a height and is back at its
\* receive
SubscriberFinishes ==
    /\ \E i \in 1..Subscribers :
         /\ subState[i] = "busy"
         /\ subState' = [ subState EXCEPT ![i] = "ready" ]
    /\ UNCHANGED <<broadcasterKind, sendCount, emitted, srcClosed, bpc, bval, bidx,
                   delivered, subClosed>>
    /\ UNCHANGED <<generatorVars, phase1vars, applierVars, semaphoreVars, pipelineVars>>

\* a handler's range ends on the closed channel
SubscriberEnds ==
    /\ \E i \in 1..Subscribers :
         /\ subState[i] = "ready"
         /\ subClosed[i]
         /\ subState' = [ subState EXCEPT ![i] = "ended" ]
    /\ UNCHANGED <<broadcasterKind, sendCount, emitted, srcClosed, bpc, bval, bidx,
                   delivered, subClosed>>
    /\ UNCHANGED <<generatorVars, phase1vars, applierVars, semaphoreVars, pipelineVars>>

NextBroadcast ==
    \/ NotifierEmits
    \/ NotifierCloses
    \/ Relay
    \/ BroadcasterCloses
    \/ SubscriberStarts
    \/ SubscriberFinishes
    \/ SubscriberEnds

SpecBroadcast == InitBroadcast /\ [][NextBroadcast]_vars

-----------------------------------------------------------------------------
(* genesis generator, k8s-applier and init container in sequence: the       *)
(* generator's output tree is the applier's artifact tree, and each node's  *)
(* init container reads the ConfigMaps the applier has stored               *)

MaxPipelineProfileSize == 2
MaxChainNameNumber == 3

\* the profiles' chain names drawn: chain_1 .. chain_<MaxChainNameNumber>
ChainNameChoices == { EntryName("chain_", << i >>) : i \in 1..MaxChainNameNumber }

InitPipeline ==
    /\ \E shape \in Shapes :
         \E v \in [ DOMAIN shape -> 0..MaxValidators ], f \in 0..MaxFullNodes,
            a \in 0..MaxAccounts, d \in 0..MaxDelegators,
            n \in 1..MaxCommitteeCount, m \in 0..MaxCommitteeCount :
              /\ ProfileSize(ShapeChains(shape, v, f, a, d, n, m)) <= MaxPipelineProfileSize
              /\ cfg = AppConfig(ShapeChains(shape, v, f, a, d, n, m), 0)
    /\ \E names \in [ DOMAIN cfg.chains -> ChainNameChoices ] :
          /\ \A i \in DOMAIN names \ {1} : LexLess(names[i - 1].digits, names[i].digits)
          /\ chainNames = names
    /\ podFiles = << >>
    /\ pc = "validate"
    /\ err = << >>
    /\ outputTree = StaleTree
    /\ chainIdx = 1
    /\ nextKey = 0
    /\ chainIdentitiesMap = << >>
    /\ chainAccountsMap = << >>
    /\ allIdentities = << >>
    /\ chainToRootChain = << >>
    /\ expandedEntries = << >>
    /\ genesisFiles = << >>
    /\ keystoreFiles = << >>
    /\ rootChainNodeAssignments = << >>
    /\ peerNodeAssignments = << >>
    /\ assignIdx = 1
    /\ idsKeys = << >>
    /\ buffer = 0
    /\ wgPending = {}
    /\ appendedIdentities = << >>
    /\ accountChan = << >>
    /\ received = << >>
    /\ collectedAccounts = << >>
    /\ ApplierIdle
    /\ SemaphoreIdle
    /\ BroadcastIdle

\* the files writeChainFiles has put under <output>/<profile>/<chainName>/, and
\* ids.json, as the tree the applier is pointed at
GeneratedTree ==
    [ entries |->
        { [ name |-> chainNames[i], isDir |-> TRUE,
            files |-> [ ft \in FileTypes |->
                          File("ok", [ kind |-> ft, chain |-> i,
                                       chainId |-> cfg.chains[i].id ]) ] ] :
          i \in { j \in DOMAIN cfg.chains : <<j, "genesis.json">> \in outputTree } },
      ids |-> File("ok", [ wellShaped |-> TRUE,
                           keys |-> [ n \in DOMAIN idsKeys |-> idsKeys[n].chainId ] ]) ]

\* the generator has ended and the applier is started on its output, on an
\* empty namespace
HandOver ==
    /\ pc = "done"
    /\ apc = "idle"
    /\ tree' = GeneratedTree
    /\ apc' = "start"
    /\ runs' = 1
    /\ clusterAtStart' = [ configMaps |-> << >>, services |-> << >>, previous |-> "none" ]
    /\ UNCHANGED <<dataByType, pendingConfigMaps, chainsTodo, configMaps, services, apiLog>>
    /\ UNCHANGED <<generatorVars, phase1vars, semaphoreVars, pipelineVars, broadcastVars>>

\* indexedFileName, with the extension: the file the init container looks for
indexedFileName(name, id) == [ kind |-> name, id |-> id ]

\* the init container of a node: nodes.Keys[hostname], then the genesis,
\* keystore and config file of node.ChainID from the mounted ConfigMaps; a
\* file that is not there ends it with exit 1
InitContainer ==
    /\ apc = "done"
    /\ \E n \in DOMAIN idsKeys \ DOMAIN podFiles :
         podFiles' =
            MapPut(podFiles, n,
                   [ ft \in FileTypes |->
                       IF /\ ft \in DOMAIN configMaps
                          /\ indexedFileName(ft, idsKeys[n].chainId)
                                \in DOMAIN configMaps[ft].data
                       THEN configMaps[ft].data[indexedFileName(ft, idsKeys[n].chainId)][2]
                       ELSE [ kind |-> "missing", chain |-> Nil, chainId |-> Nil ] ])
    /\ UNCHANGED chainNames
    /\ UNCHANGED <<generatorVars, phase1vars, applierVars, semaphoreVars, broadcastVars>>

NextPipeline ==
    \/ Validate
    \/ ResetOutput
    \/ GenerateChain
    \/ Expand
    \/ WriteChain
    \/ SeedCounters
    \/ AssignPointers
    \/ SaveIds
    \/ HandOver
    \/ BuildData
    \/ ApplyConfigMap
    \/ ParseIds
    \/ CreateService
    \/ FinishApply
    \/ InitContainer

SpecPipeline == InitPipeline /\ [][NextPipeline]_vars

-----------------------------------------------------------------------------
(* Properties *)

Done == pc = "done"

\* the entries of ids.json
IdsEntries == { idsKeys[id] : id \in DOMAIN idsKeys }

\* the rootChain configured for the chain(s) whose id is id
RootChainsOf(id) ==
    { cfg.chains[i].rootChain : i \in { j \in ChainIndices(cfg) : cfg.chains[j].id = id } }

\* C1: in the written ids.json every validator entry has rootChainNode set,
\* and it is the id of a validator entry whose chain is the root chain of the
\* entry's own chain.
C1_RootChainNodeOnOwnRoot ==
    Done => \A v \in IdsEntries :
        v.nodeType = "validator" =>
            /\ v.rootChainNode # Nil
            /\ v.rootChainNode \in DOMAIN idsKeys
            /\ idsKeys[v.rootChainNode].nodeType = "validator"
            /\ idsKeys[v.rootChainNode].chainId \in RootChainsOf(v.chainId)

\* C2: in the written ids.json every validator and full-node entry has
\* peerNode set, and it is the id of a validator entry on the entry's own
\* chain (for a full node on a root chain: on that root chain).
C2_PeerNodeOnOwnChain ==
    Done => \A v \in IdsEntries :
        v.nodeType \in {"validator", "fullnode"} =>
            /\ v.peerNode # Nil
            /\ v.peerNode \in DOMAIN idsKeys
            /\ idsKeys[v.peerNode].nodeType = "validator"
            /\ idsKeys[v.peerNode].chainId = v.chainId

\* C3: after validation the pointer assignment never lacks a candidate: when
\* the entry under assignment takes the least-assigned peer of its nested
\* chain the candidate list is non-empty, and the run never aborts there.
C3_PeerCandidatesNeverEmpty ==
    /\ pc # "panic"
    /\ (pc = "assign" /\ assignIdx <= Len(expandedEntries)) =>
          LET e == expandedEntries[assignIdx]
          IN  (~e.identity.isDelegate /\ peerNodeRule(expandedEntries, e) = "leastPeer")
                 => peerCandidates(expandedEntries, e.identity.chainId) # << >>

EntryIndices == DOMAIN expandedEntries

\* C4: after the expansion no two identities share an id, whatever their
\* chain and kind (validator, committee-only, full node, delegator, expanded).
C4_UniqueIDs ==
    \A i \in EntryIndices : \A j \in EntryIndices :
        expandedEntries[i].identity.id = expandedEntries[j].identity.id => i = j

IsExpandedCopy(e) == e.identity.id # e.originalID

\* C4 witness: an expansion that holds an expanded validator, an expanded
\* delegator, a committee-only validator, a committee-only delegator and a
\* full node, on more than one chain.
C4_Witness ==
    /\ pc = "write"
    /\ \E e \in Range(expandedEntries) : IsExpandedCopy(e) /\ ~e.identity.isDelegate
    /\ \E e \in Range(expandedEntries) : IsExpandedCopy(e) /\ e.identity.isDelegate
    /\ \E e \in Range(expandedEntries) :
          isCommitteeOnly(e.identity) /\ ~e.identity.isDelegate
    /\ \E e \in Range(expandedEntries) :
          isCommitteeOnly(e.identity) /\ e.identity.isDelegate
    /\ \E e \in Range(expandedEntries) : e.identity.nodeType = "fullnode"
    /\ Cardinality({ e.identity.chainId : e \in Range(expandedEntries) }) > 1

\* C5: ids.json holds nodes.count entries and their ids are exactly
\* 1..nodes.count.
C5_DenseNodeIDs == Done => DOMAIN idsKeys = 1..cfg.nodes

\* C5 witness: a finished run with delegators, an expanded entry and at
\* least three nodes.
C5_Witness ==
    /\ Done
    /\ cfg.nodes >= 3
    /\ \E e \in Range(expandedEntries) : e.identity.isDelegate
    /\ \E e \in Range(expandedEntries) : IsExpandedCopy(e) /\ ~e.identity.isDelegate

\* C6: no two entries of ids.json have both the same chainId and the same
\* address.
C6_UniqueChainAddress ==
    Done => \A v \in IdsEntries : \A w \in IdsEntries :
        (v.chainId = w.chainId /\ v.address = w.address) => v.id = w.id

\* C7: the addresses in the genesis validators of a chain are exactly the
\* addresses of the validator and delegator identities whose genesisChainId
\* is the chain's id, and none appears twice.
C7_GenesisValidatorsExact ==
    \A i \in DOMAIN genesisFiles :
        LET gv == genesisFiles[i].validators
        IN  /\ { gv[n].address : n \in DOMAIN gv }
                 = { e.identity.address : e \in { x \in Range(expandedEntries) :
                        /\ x.identity.nodeType # "fullnode"
                        /\ x.identity.genesisChainId = cfg.chains[i].id } }
            /\ \A n \in DOMAIN gv : \A m \in DOMAIN gv :
                   gv[n].address = gv[m].address => n = m

\* the committees the three-way rule gives identity v in the genesis of chain id
ThreeWayRule(v, id) ==
    IF v.committees[1] = id THEN v.committees
    ELSE IF v.expandingCommittees = {} THEN v.committees
    ELSE <<id>>

\* C8: every genesis validator is emitted with the committees of the
\* three-way rule: all committees for a native validator, the original
\* committees for a committee-only validator, [this chain] otherwise.
C8_GenesisCommittees ==
    \A i \in DOMAIN genesisFiles :
        LET id == cfg.chains[i].id
            src == chainGenesisValidators(expandedEntries, id)
            gv == genesisFiles[i].validators
        IN  /\ Len(gv) = Len(src)
            /\ \A n \in DOMAIN gv : gv[n].committees = ThreeWayRule(src[n], id)

\* C8 witness: genesis files holding a native validator with two committees,
\* a committee-only validator and an expanded entry reduced to [this chain].
C8_Witness ==
    /\ Done
    /\ \E i \in DOMAIN genesisFiles :
         LET id == cfg.chains[i].id
             src == chainGenesisValidators(expandedEntries, id)
         IN  /\ \E n \in DOMAIN src : src[n].committees[1] = id /\ Len(src[n].committees) > 1
             /\ \E n \in DOMAIN src : src[n].committees[1] # id /\ src[n].expandingCommittees = {}
    /\ \E i \in DOMAIN genesisFiles :
         LET id == cfg.chains[i].id
             src == chainGenesisValidators(expandedEntries, id)
         IN  \E n \in DOMAIN src :
                /\ src[n].committees[1] # id /\ src[n].expandingCommittees # {}
                /\ genesisFiles[i].validators[n].committees = <<id>>
                /\ Len(src[n].committees) > 1

\* the committee-only validators declared on chain index o: node id, target
\* committee and address, read off the profile and the chain's identities
CommitteeOnlyValidatorsOf(o) ==
    IF o \notin DOMAIN chainIdentitiesMap THEN {}
    ELSE LET targets == committeeOnlyTargets(cfg.chains[o], FALSE)
             first == chainStartIndices(cfg, o) + cfg.chains[o].validators
         IN  { [ id |-> first + (n - 1), target |-> targets[n],
                 address |-> (CHOOSE v \in Range(chainIdentitiesMap[o]) :
                                 v.id = first + (n - 1)).address ] : n \in DOMAIN targets }

ChainsWithID(id) == { t \in ChainIndices(cfg) : cfg.chains[t].id = id }

\* what C9 states of committee-only validator co declared on chain index o
CommitteeOnlyPlacement(o, co) ==
    LET recs == { k \in EntryIndices : expandedEntries[k].originalID = co.id }
        gvO == genesisFiles[o].validators
    IN  /\ Cardinality(recs) = 1
        /\ \A k \in recs :
              /\ expandedEntries[k].identity.chainId = co.target
              /\ expandedEntries[k].identity.genesisChainId = cfg.chains[o].id
              /\ expandedEntries[k].identity.address = co.address
        /\ \E n \in DOMAIN gvO : gvO[n].address = co.address /\ gvO[n].committees = <<co.target>>
        /\ \A t \in ChainsWithID(co.target) :
              /\ \A n \in DOMAIN genesisFiles[t].validators :
                    genesisFiles[t].validators[n].address # co.address
              /\ [ kind |-> "node", n |-> co.id ] \in DOMAIN keystoreFiles[t]
              /\ keystoreFiles[t][[ kind |-> "node", n |-> co.id ]] = co.address
        /\ co.id \in DOMAIN idsKeys
        /\ idsKeys[co.id].peerNode = co.id

C10_CommitteeOnlyAccounts ==
    \A o \in ChainIndices(cfg) : \A co \in CommitteeOnlyValidatorsOf(o) :
        (co.target # cfg.chains[o].id /\ cfg.chains[o].id # 0) =>
            /\ \A t \in ChainsWithID(co.target) \cap DOMAIN genesisFiles :
                  co.address \in Range(genesisFiles[t].accounts)
            /\ o \in DOMAIN genesisFiles =>
                  /\ co.address \notin Range(genesisFiles[o].accounts)
                  /\ co.address \notin Range(keystoreFiles[o])

\* C11: every expanded record of a repeated-identity validator has the
\* address and the public key of its base record and another id; the base
\* record is the generated identity, with its original id and native chainId.
C11_ExpandedSameKey ==
    \A k \in EntryIndices :
        LET e == expandedEntries[k]
        IN  IsExpandedCopy(e) =>
              \E b \in EntryIndices :
                 LET v == expandedEntries[b].identity
                 IN  /\ v.id = e.originalID
                     /\ expandedEntries[b].originalID = v.id
                     /\ v \in Range(allIdentities)
                     /\ v.chainId = v.committees[1]
                     /\ e.identity.address = v.address
                     /\ e.identity.publicKey = v.publicKey
                     /\ e.identity.id # v.id

\* C11 witness: an expansion with an expanded validator record on another
\* chain than its base record, next to a second generated validator.
C11_Witness ==
    /\ pc = "write"
    /\ \E e \in Range(expandedEntries) :
          /\ IsExpandedCopy(e) /\ ~e.identity.isDelegate
          /\ \E b \in Range(expandedEntries) :
                /\ b.identity.id = e.originalID
                /\ b.identity.chainId # e.identity.chainId
                /\ b.identity.address = e.identity.address
    /\ Cardinality({ e.identity.address : e \in { x \in Range(expandedEntries) :
                        x.identity.nodeType = "validator" } }) > 1


\* the number of ids.json entries whose rootChainNode is t
rootChainNodeLoad(t) == Cardinality({ v \in IdsEntries : v.rootChainNode = t })

\* the number of ids.json entries whose peerNode is t
peerNodeLoad(t) == Cardinality({ v \in IdsEntries : v.peerNode = t })

\* the eligible rootChainNode targets of chain id c: the validators of c when
\* c is a root chain
RootTargetsOf(c) ==
    { t \in Range(rootChainNodeIDs(expandedEntries)) :
          t \in DOMAIN idsKeys /\ idsKeys[t].chainId = c }

\* the eligible peerNode targets of chain id c: its root chain validators, or
\* the candidate peers of a nested chain
PeerTargetsOf(c) ==
    RootTargetsOf(c) \cup
    { t \in Range(peerCandidates(expandedEntries, c)) : t \in DOMAIN idsKeys }

\* C12: when pointer assignment has finished, for each chain the numbers of
\* entries pointing at two eligible targets of that chain differ by at most 1,
\* for rootChainNode and, separately, for peerNode.
C12_PointerLoadBalanced ==
    Done => \A i \in ChainIndices(cfg) :
        LET c == cfg.chains[i].id
        IN  /\ \A t, u \in RootTargetsOf(c) :
                  rootChainNodeLoad(t) - rootChainNodeLoad(u) <= 1
            /\ \A t, u \in PeerTargetsOf(c) :
                  peerNodeLoad(t) - peerNodeLoad(u) <= 1


\* C13: in the written ids.json every entry, full nodes included, has a
\* rootChainNode that is the id of an entry of ids.json which is a validator
\* on the root chain of the entry's chain.
C13_RootChainNodeIsValidator ==
    Done => \A v \in IdsEntries :
        /\ v.rootChainNode \in DOMAIN idsKeys
        /\ idsKeys[v.rootChainNode].nodeType = "validator"
        /\ idsKeys[v.rootChainNode].chainId \in RootChainsOf(v.chainId)


\* the profile has exactly one root chain and no committee assignments
SingleRootNoCommittees ==
    /\ Cardinality({ i \in ChainIndices(cfg) : IsRoot(cfg.chains[i]) }) = 1
    /\ \A i \in ChainIndices(cfg) : cfg.chains[i].committees = << >>

C15_RootChainIdOfChain ==
    Done => \A v \in IdsEntries : v.rootChainId \in RootChainsOf(v.chainId)


\* the identities imported into the keystore of the chain at index i
KeystoreIdentitiesOf(i) ==
    Range(keystoreIdentities(chainIdentitiesMap[i],
                             chainKeystoreValidators(expandedEntries, cfg.chains[i].id)))

\* |n|
Abs(n) == IF n < 0 THEN 0 - n ELSE n

\* the nickname the keystore is to hold for identity v
ExpectedNickname(v) ==
    IF v.isDelegate THEN [ kind |-> "delegator", n |-> Abs(v.id) ]
                    ELSE [ kind |-> "node", n |-> v.id ]

\* C16: no delegator (regular, committee-only or expanded) is a key of
\* ids.json, and in every written keystore the key of a delegator is under the
\* nickname delegator-<|id|> and the key of a validator or full node under
\* node-<id>.
C16_DelegatorsOnlyInKeystore ==
    /\ \A id \in DOMAIN idsKeys :
          /\ ~idsKeys[id].isDelegate
          /\ \A e \in Range(expandedEntries) : e.identity.isDelegate => e.identity.id # id
    /\ \A i \in DOMAIN keystoreFiles : \A v \in KeystoreIdentitiesOf(i) :
          /\ ExpectedNickname(v) \in DOMAIN keystoreFiles[i]
          /\ keystoreFiles[i][ExpectedNickname(v)] = v.address

\* C16 witness: ids.json is written for a profile with a regular, a
\* committee-only and an expanded delegator, each in a keystore.
C16_Witness ==
    /\ Done
    /\ \E e \in Range(expandedEntries) :
          e.identity.isDelegate /\ IsExpandedCopy(e)
    /\ \E e \in Range(expandedEntries) :
          e.identity.isDelegate /\ ~IsExpandedCopy(e) /\ e.identity.expandingCommittees # {}
    /\ \E e \in Range(expandedEntries) :
          e.identity.isDelegate /\ genesisChainIDOf(e.identity) # e.identity.chainId
                                /\ e.identity.expandingCommittees = {}
    /\ \A e \in Range(expandedEntries) : e.identity.isDelegate =>
          \E i \in DOMAIN keystoreFiles :
             [ kind |-> "delegator", n |-> Abs(e.identity.id) ] \in DOMAIN keystoreFiles[i]
    /\ \E v \in IdsEntries : v.nodeType = "fullnode"


\* the tally as the validation rule states it: over all chains, validators +
\* full nodes + repeated-identity validators + committee-only validators
StatedTally ==
    SumSeq([ i \in ChainIndices(cfg) |->
        cfg.chains[i].validators + cfg.chains[i].fullNodes
        + SumSeq([ j \in DOMAIN cfg.chains[i].committees |->
              cfg.chains[i].committees[j].repeatedIdentityValidatorCount
              + cfg.chains[i].committees[j].validatorCount ]) ])

DuplicateChainID ==
    \E i, j \in ChainIndices(cfg) : i # j /\ cfg.chains[i].id = cfg.chains[j].id

\* C18: a profile in which two chains declare the same id does not get past
\* validation: the run exits with an error, no key is generated and no
\* artifact is written.
C18_DuplicateChainIDRejected ==
    DuplicateChainID =>
        /\ pc \in {"validate", "exit1"}
        /\ pc = "exit1" => err # << >>
        /\ nextKey = 0
        /\ outputTree = StaleTree


\* the run has failed: os.Exit(1) or a panic
Failed == pc \in {"exit1", "panic", "abort"}

\* the output tree holds files of a chain folder and no ids.json
PartialArtifacts ==
    /\ \E x \in outputTree : x[1] # 0
    /\ <<0, "ids.json">> \notin outputTree

\* C19: whenever a run has failed, at whatever step, the output tree holds no
\* partial artifact set (chain folders without ids.json).
C19_NoPartialOutput == Failed => ~PartialArtifacts


\* what Phase 1 plans for the chain at index i, with keys of its own
PlannedChain(i) ==
    generateChainIdentities(cfg.chains[i], chainStartIndices(cfg, i),
                            chainDelegatorStartIndices(cfg, i), 100 * i)

\* the expansion of the planned identities
PlannedEntries ==
    expandAll(chainToRootChain,
              SortByID(Flatten([ i \in ChainIndices(cfg) |-> PlannedChain(i).identities ])))

\* the pointer assignment loop over entries from position k on, as one value
RECURSIVE PlannedIds(_, _, _, _, _)
PlannedIds(entries, k, rootCounts, peerCounts, ids) ==
    IF k > Len(entries) THEN ids
    ELSE LET e == entries[k]
             rRule == rootChainNodeRule(entries, e)
             pRule == peerNodeRule(entries, e)
             roots == rootChainNodeIDs(entries)
             peers == peerCandidates(entries, e.identity.chainId)
         IN  IF e.identity.isDelegate
             THEN PlannedIds(entries, k + 1, rootCounts, peerCounts, ids)
             ELSE IF \/ (rRule = "least" /\ roots = << >>)
                     \/ (pRule = "leastRoot" /\ roots = << >>)
                     \/ (pRule = "leastPeer" /\ peers = << >>)
             THEN ids
             ELSE LET rootChainNode ==
                          IF rRule = "self" THEN e.identity.id
                          ELSE IF rRule = "root"
                          THEN addressToRootChainID(entries)[e.originalAddr]
                          ELSE findLeastAssigned(roots, rootCounts)
                      peerNode ==
                          IF pRule = "self" THEN e.identity.id
                          ELSE IF pRule = "leastRoot"
                          THEN findLeastAssigned(roots, peerCounts)
                          ELSE findLeastAssigned(peers, peerCounts)
                  IN  PlannedIds(entries, k + 1,
                          IF rRule = "least" THEN MapInc(rootCounts, rootChainNode)
                                             ELSE rootCounts,
                          IF pRule \in {"leastRoot", "leastPeer"}
                          THEN MapInc(peerCounts, peerNode) ELSE peerCounts,
                          MapPut(ids, e.identity.id,
                                 [ e.identity EXCEPT !.rootChainNode = rootChainNode,
                                                     !.peerNode = peerNode ]))

\* the planned structure of an ids.json: id -> (chainId, genesisChainId,
\* nodeType, committees, rootChainNode, peerNode)
StructureOf(ids) ==
    { [ id |-> ids[k].id, chainId |-> ids[k].chainId,
        genesisChainId |-> ids[k].genesisChainId, nodeType |-> ids[k].nodeType,
        committees |-> ids[k].committees, rootChainNode |-> ids[k].rootChainNode,
        peerNode |-> ids[k].peerNode ] : k \in DOMAIN ids }

PlannedStructure ==
    StructureOf(PlannedIds(PlannedEntries, 1,
        seedRootChainNodeAssignments(PlannedEntries, 1,
            [ id \in Range(rootChainNodeIDs(PlannedEntries)) |-> 0 ]),
        seedPeerNodeAssignments(PlannedEntries, 1,
            [ id \in peerCounterIDs(PlannedEntries) |-> 0 ]),
        << >>))

\* the planned numbers of genesis validators, genesis accounts and keystore
\* entries of the chain at index i
PlannedCounts(i) ==
    LET id == cfg.chains[i].id
        kv == chainKeystoreValidators(PlannedEntries, id)
    IN  << Len(writeGenesisFromIdentities(id, chainGenesisValidators(PlannedEntries, id))),
           Len(genesisAccounts(PlannedChain(i).accounts, kv)),
           Cardinality(DOMAIN importKeys(<< >>,
                           keystoreIdentities(PlannedChain(i).identities, kv))) >>

\* the same numbers in the written files
WrittenCounts(i) ==
    << Len(genesisFiles[i].validators), Len(genesisFiles[i].accounts),
       Cardinality(DOMAIN keystoreFiles[i]) >>

\* C20, the mapping: whatever the interleaving of the key-generation workers,
\* the written ids.json maps every id to the planned chainId, genesisChainId,
\* nodeType, committees, rootChainNode and peerNode.
C20_SameMapping == Done => StructureOf(idsKeys) = PlannedStructure

\* C20: whatever the interleaving of the key-generation workers, a finished
\* run of a profile has the planned structure: the same mapping of ids and
\* the same number of genesis validators, genesis accounts and keystore
\* entries in every chain.
C20_PlannedStructureDeterministic ==
    Done => /\ StructureOf(idsKeys) = PlannedStructure
            /\ \A i \in ChainIndices(cfg) : WrittenCounts(i) = PlannedCounts(i)

\* ------------------------------------------------------------------------
\* k8s-applier: properties

\* the keys the folders of the tree stand for, one per chain folder
ExpectedKeys(fileType) ==
    { buildEntryKey(fileType, getChainID(f)) : f \in getChainFolders(tree) }

\* C21: after a successful applier run over a tree with n chain folders, the
\* ConfigMaps genesis, config and keystore each hold exactly n keys, one
\* <kind>_<chainId>.json per chain folder, and ids holds the single key
\* ids.json.
C21_OneKeyPerChainFolder ==
    apc = "done" =>
        /\ \A ft \in FileTypes :
              /\ ft \in DOMAIN configMaps
              /\ DOMAIN configMaps[ft].data = ExpectedKeys(ft)
              /\ Cardinality(DOMAIN configMaps[ft].data)
                    = Cardinality(getChainFolders(tree))
        /\ "ids" \in DOMAIN configMaps
        /\ DOMAIN configMaps["ids"].data = {IdsKey}

\* the ConfigMaps this run has applied so far
AppliedConfigMaps ==
    IF dataByType = << >> THEN {}
    ELSE buildConfigMapsFromData(dataByType) \ pendingConfigMaps

\* C22: the upsert is a full replacement and idempotent: an applied ConfigMap's
\* stored data equals the supplied data exactly, whether or not it existed
\* before, and after a successful run a second run over the same artifacts
\* leaves the data of every ConfigMap it applies as it was.
C22_UpsertReplacesData ==
    /\ \A name \in AppliedConfigMaps :
          /\ name \in DOMAIN configMaps
          /\ configMaps[name].data = dataByType[name]
    /\ clusterAtStart.previous = "done" =>
          \A name \in AppliedConfigMaps :
             configMaps[name].data = clusterAtStart.configMaps[name].data

\* a ConfigMap that held a stale key before the first run has been applied in
\* both runs, beside ConfigMaps the first run created
C22_Witness ==
    /\ runs = 2
    /\ clusterAtStart.previous = "done"
    /\ AppliedConfigMaps = FileTypes \cup {"ids"}
    /\ configMaps["genesis"].owner = "other"
    /\ configMaps["config"].owner = "applier"

\* the chain ids occurring among the entries of ids.json
ChainIdsInIds == { tree.ids.doc.keys[n] : n \in DOMAIN tree.ids.doc.keys }

CallsOf(kind) == { i \in DOMAIN apiLog : apiLog[i].call = kind }

FailedCalls == { i \in DOMAIN apiLog : ~apiLog[i].ok }

\* C24: the applier is sequenced and fail-fast: every ConfigMap is applied
\* before any service call, a failed call is the last call of its run and the
\* run exits non-zero, and on a run after a successful one the services that
\* exist remain as they were while the run creates none and ends with the
\* already-exists failure instead of succeeding.
C24_FailFastSequenced ==
    /\ \A i \in CallsOf("service") : \A j \in CallsOf("configmap") : j < i
    /\ CallsOf("service") # {} =>
          /\ pendingConfigMaps = {}
          /\ Cardinality(CallsOf("configmap") \ FailedCalls)
                = Cardinality(buildConfigMapsFromData(dataByType))
    /\ \A i \in FailedCalls : i = Len(apiLog) /\ apc = "exit1"
    /\ \A n \in DOMAIN clusterAtStart.services :
          n \in DOMAIN services /\ services[n] = clusterAtStart.services[n]
    /\ (clusterAtStart.previous = "done" /\ ChainIdsInIds # {}) =>
          /\ apc # "done"
          /\ services = clusterAtStart.services
          /\ CallsOf("service") \subseteq FailedCalls

\* a second run, after a successful one that created services, has applied the
\* ConfigMaps and failed at its first service call
C24_Witness ==
    /\ runs = 2
    /\ clusterAtStart.previous = "done"
    /\ Cardinality(ChainIdsInIds) = 2
    /\ Cardinality(CallsOf("configmap")) = 4
    /\ CallsOf("service") = {5}
    /\ apc = "exit1"

\* an artifact file that is missing or is not well-formed JSON
Unusable(file) == file.status \in {"missing", "malformed"}

\* the tree has no chain folder, or ids.json or one of the three files of a
\* chain folder is unusable
DefectiveTree ==
    \/ ~ \E e \in tree.entries : e.isDir /\ chainRegexMatch(e.name)
    \/ Unusable(tree.ids)
    \/ \E e \in tree.entries :
          /\ e.isDir
          /\ chainRegexMatch(e.name)
          /\ \E ft \in {"genesis", "config", "keystore"} : Unusable(e.files[ft])

\* C28: every artifact file is read and validated before the cluster is
\* touched: over a tree without chain folder, or with ids.json or a chain
\* folder's genesis, config or keystore file missing or malformed, a run makes
\* no API call and leaves every ConfigMap and service as it was.
C28_ValidatedBeforeMutation ==
    DefectiveTree =>
        /\ apiLog = << >>
        /\ configMaps = clusterAtStart.configMaps
        /\ services = clusterAtStart.services
        /\ apc \in {"start", "exit0", "exit1"}

\* a run has ended over a tree whose second chain folder holds a malformed
\* keystore.json, on a namespace that holds a ConfigMap
C28_Witness ==
    /\ apc = "exit1"
    /\ \E e \in tree.entries :
          /\ e.name = EntryName("chain_", << 2 >>)
          /\ e.isDir
          /\ e.files["keystore"].status = "malformed"
    /\ "genesis" \in DOMAIN configMaps

\* ------------------------------------------------------------------------
\* Phase 1 with its goroutines: properties

\* C25: account collection is complete under every interleaving: the account
\* list generateChainIdentities returns for a chain holds the account of every
\* identity generated for the chain and accounts.count filler accounts.
C25_AccountCollectionComplete ==
    \A i \in DOMAIN chainAccountsMap :
       /\ Len(chainAccountsMap[i]) = Len(chainIdentitiesMap[i]) + cfg.chains[i].accounts
       /\ \A k \in DOMAIN chainIdentitiesMap[i] :
             chainIdentitiesMap[i][k].address \in Range(chainAccountsMap[i])

\* the identities whose workers generateChainIdentities spawns for chain i
SpawnedFor(i) ==
    spawnedIdentities(cfg.chains[i], chainStartIndices(cfg, i),
                      chainDelegatorStartIndices(cfg, i), 0)

\* C26: at every moment of Phase 1 at most General.Concurrency workers hold the
\* semaphore, every append to the identity list happens under the mutex, and
\* the list returned after the barrier holds exactly one record per worker
\* spawned to create an identity.
C26_SemaphoreCapAndAppends ==
    /\ Cardinality(holders) <= concurrency
    /\ \A w \in DOMAIN workerState :
          workerState[w].at = "write" => mutexHolder = w
    /\ \A i \in DOMAIN chainIdentitiesMap :
          /\ Len(chainIdentitiesMap[i]) = Len(SpawnedFor(i))
          /\ \A k \in DOMAIN SpawnedFor(i) :
                Cardinality({ j \in DOMAIN chainIdentitiesMap[i] :
                                chainIdentitiesMap[i][j].id = SpawnedFor(i)[k].id }) = 1

\* with a semaphore of one slot, a chain with two identity workers has
\* returned its list
C26_Witness ==
    /\ concurrency = 1
    /\ \E i \in DOMAIN chainIdentitiesMap : Len(chainIdentitiesMap[i]) = 2
    /\ \A w \in DOMAIN workerState : workerState[w].at = "done"


\* C27: Phase 1 always terminates for a profile accepted by validation: every
\* worker acquires the semaphore, sends its account, records its identity,
\* releases and finishes, and the barrier is passed for every chain.
C27_PassOneTerminates == (pc = "reset") ~> (pc = "expand")

\* ------------------------------------------------------------------------
\* populator: properties

\* the heights the broadcaster has received from the source, in source order
HeightsTaken == [ k \in 1..emitted |-> k ]

\* C30: the broadcaster delivers strictly: once it has gone through its
\* subscribers for a height, every subscriber has been handed every height
\* taken from the source, in source order, and a subscriber channel is closed
\* only after the source closed and after its last delivery.
C30_StrictDelivery ==
    /\ bpc \in {"recv", "closed"} =>
          \A i \in DOMAIN delivered : delivered[i] = HeightsTaken
    /\ \A i \in DOMAIN subClosed :
          subClosed[i] => (srcClosed /\ delivered[i] = HeightsTaken)

\* ------------------------------------------------------------------------
\* generator, applier and init container: properties

\* C29: generator, applier and init container agree on chain keys: after a
\* successful apply, the init container of every node of ids.json finds the
\* genesis, config and keystore file of the node's chain id, and what it finds
\* is the artifact generated for the chain with that id.
C29_ChainKeysAgree ==
    \A n \in DOMAIN podFiles :
       \A ft \in {"genesis", "config", "keystore"} :
          /\ podFiles[n][ft].kind = ft
          /\ podFiles[n][ft].chainId = idsKeys[n].chainId
====
